---------------------------- MODULE Spec2Model ----------------------------
(***************************************************************************)
(* A model of the libdxf group-code record codec: the per-entity           *)
(* read/write/free functions of src/3dline.c, src/arc.c, src/solid.c,      *)
(* src/layer.c and the ENDBLK entity (src/unnamed/part_003), together with *)
(* the C library text conversions (fprintf / fscanf) they are written      *)
(* with, and the construction of a 3DLINE from two points.  Further        *)
(* sections model the write function of src/3dsolid.c, the getters and     *)
(* setters of the numeric members, dxf_table_write_tables                  *)
(* (src/unnamed/part_002) and dxf_donut_write_lowlevel                     *)
(* (src/unnamed/part_004).                                                 *)
(*                                                                         *)
(* Text is modelled at the level of characters: a file is a sequence of    *)
(* one-character strings, and every conversion is computed the way the C   *)
(* library computes it.  A double is modelled as an integer number of      *)
(* half-millionths, so that "%f" (six decimals) is a lossy conversion.     *)
(***************************************************************************)
EXTENDS Integers, Sequences, FiniteSets, TLC

(***************************************************************************)
(* Bounds of the model.                                                    *)
(***************************************************************************)
\* The records a chain is built from.
MaxNodes == 3
\* The setter calls made on a record before it is written.
MaxSets == 2
\* The (group code, value) pairs of an input stream.
MaxPairs == 2
\* The passes of the read loop, and the warnings, that are counted; the
\* counts stay at this value when the loop goes on.
MaxIter == 4

(***************************************************************************)
(* Program constants.                                                      *)
(***************************************************************************)
EXIT_SUCCESS == 0
EXIT_FAILURE == 1
NULL == 0
DXF_COLOR_BYLAYER == 256
DXF_MODELSPACE == 0
DXF_PAPERSPACE == 1
DXF_DEFAULT_VISIBILITY == 0
DXF_FLATLAND == 0
AutoCAD_10 == 10
AutoCAD_11 == 11
AutoCAD_12 == 12
AutoCAD_13 == 13
AutoCAD_14 == 14
AutoCAD_2000 == 15
AutoCAD_2002 == 17
AutoCAD_2004 == 18
AutoCAD_2008 == 22
AutoCAD_2009 == 23

\* The revisions (fp->acad_version_number) the model explores.
Versions ==
  {AutoCAD_11, AutoCAD_12, AutoCAD_13, AutoCAD_14, AutoCAD_2000,
   AutoCAD_2002, AutoCAD_2004, AutoCAD_2008, AutoCAD_2009}

(***************************************************************************)
(* Doubles: an integer number of half-millionths.                          *)
(***************************************************************************)
HalfMicro == 2000000

D(k) == k * HalfMicro

(***************************************************************************)
(* Characters and strings.                                                 *)
(***************************************************************************)
NL == "\n"

DecDigits == <<"0", "1", "2", "3", "4", "5", "6", "7", "8", "9">>

HexDigits ==
  <<"0", "1", "2", "3", "4", "5", "6", "7", "8", "9",
    "a", "b", "c", "d", "e", "f">>

UpperHex == <<"A", "B", "C", "D", "E", "F">>

IsSpace(c) == c \in {" ", "\n", "\t"}

IsDigit(c) == \E i \in 1..10 : DecDigits[i] = c

IsHexDigit(c) ==
  \/ \E i \in 1..16 : HexDigits[i] = c
  \/ \E i \in 1..6 : UpperHex[i] = c

HexVal(c) ==
  IF \E i \in 1..16 : HexDigits[i] = c
    THEN (CHOOSE i \in 1..16 : HexDigits[i] = c) - 1
    ELSE (CHOOSE i \in 1..6 : UpperHex[i] = c) + 9

S_empty == << >>
S_0 == <<"0">>
S_BYLAYER == <<"B", "Y", "L", "A", "Y", "E", "R">>
S_DASHED == <<"D", "A", "S", "H", "E", "D">>
S_AcDbEntity == <<"A", "c", "D", "b", "E", "n", "t", "i", "t", "y">>
S_AcDbLine == <<"A", "c", "D", "b", "L", "i", "n", "e">>
S_AcDbCircle == <<"A", "c", "D", "b", "C", "i", "r", "c", "l", "e">>
S_AcDbArc == <<"A", "c", "D", "b", "A", "r", "c">>
S_AcDbTrace == <<"A", "c", "D", "b", "T", "r", "a", "c", "e">>

S_AcDbBlockEnd ==
  <<"A", "c", "D", "b", "B", "l", "o", "c", "k", "E", "n", "d">>
S_3DLINE == <<"3", "D", "L", "I", "N", "E">>
S_LINE == <<"L", "I", "N", "E">>
S_ARC == <<"A", "R", "C">>
S_SOLID == <<"S", "O", "L", "I", "D">>

S_ENDBLK == <<"E", "N", "D", "B", "L", "K">>
S_ENDSEC == <<"E", "N", "D", "S", "E", "C">>
S_REACTORS ==
  <<"{", "A", "C", "A", "D", "_", "R", "E", "A", "C", "T", "O", "R", "S">>
S_XDICTIONARY ==
  <<"{", "A", "C", "A", "D", "_", "X", "D", "I", "C", "T", "I", "O", "N",
    "A", "R", "Y">>
S_close == <<"}">>

DXF_DEFAULT_LINETYPE == S_BYLAYER
DXF_DEFAULT_LAYER == S_0
DXF_DEFAULT_LINETYPE_SCALE == D(1)

(***************************************************************************)
(* fprintf conversions.                                                    *)
(***************************************************************************)
RECURSIVE FmtU(_)
\* "%d" / "%ld" of a non-negative integer.
FmtU(n) ==
  IF n < 10 THEN <<DecDigits[n + 1]>>
  ELSE FmtU(n \div 10) \o <<DecDigits[(n % 10) + 1]>>

\* "%d", "%ld": a signed decimal integer.
FmtD(n) == IF n < 0 THEN <<"-">> \o FmtU(0 - n) ELSE FmtU(n)

RECURSIVE FmtX(_)
\* "%x" of a non-negative integer.
FmtX(n) ==
  IF n < 16 THEN <<HexDigits[n + 1]>>
  ELSE FmtX(n \div 16) \o <<HexDigits[(n % 16) + 1]>>

\* Six decimal digits, zero padded.
Pad6(m) ==
  <<DecDigits[((m \div 100000) % 10) + 1],
    DecDigits[((m \div 10000) % 10) + 1],
    DecDigits[((m \div 1000) % 10) + 1],
    DecDigits[((m \div 100) % 10) + 1],
    DecDigits[((m \div 10) % 10) + 1],
    DecDigits[(m % 10) + 1]>>

\* "%f": fixed notation, six decimals, rounded to the nearest millionth.
FmtF(x) ==
  LET a == IF x < 0 THEN 0 - x ELSE x
      micro == (a + 1) \div 2
  IN  (IF x < 0 THEN <<"-">> ELSE << >>)
        \o FmtU(micro \div 1000000) \o <<".">> \o Pad6(micro % 1000000)

\* fprintf (fp->fp, "<code>\n<value>\n"): a group-code line and a value line.
Pair(code, value) == code \o <<NL>> \o value \o <<NL>>

(***************************************************************************)
(* fscanf conversions.  A conversion starts at position p of the file f    *)
(* and yields [ok, val, pos]: whether it matched, the value converted and  *)
(* the file position it leaves.                                            *)
(***************************************************************************)
RECURSIVE SkipSpace(_, _)
\* White space in a format, and the white space "%s", "%d", "%x" and "%lf"
\* skip first.
SkipSpace(f, p) ==
  IF p <= Len(f) /\ IsSpace(f[p]) THEN SkipSpace(f, p + 1) ELSE p

RECURSIVE EndOfLine(_, _)
EndOfLine(f, p) ==
  IF p <= Len(f) /\ f[p] # NL THEN EndOfLine(f, p + 1) ELSE p

RECURSIVE EndOfWord(_, _)
EndOfWord(f, p) ==
  IF p <= Len(f) /\ ~IsSpace(f[p]) THEN EndOfWord(f, p + 1) ELSE p

RECURSIVE EndOfDigits(_, _)
EndOfDigits(f, p) ==
  IF p <= Len(f) /\ IsDigit(f[p]) THEN EndOfDigits(f, p + 1) ELSE p

RECURSIVE EndOfHex(_, _)
EndOfHex(f, p) ==
  IF p <= Len(f) /\ IsHexDigit(f[p]) THEN EndOfHex(f, p + 1) ELSE p

RECURSIVE DecValue(_, _, _)
\* The value of the decimal digits f[p..q-1].
DecValue(f, p, q) ==
  IF p >= q THEN 0
  ELSE DecValue(f, p, q - 1) * 10 + (HexVal(f[q - 1]))

\* acc * 16 + d in the 32 bits of an int.
Shift4(acc, d) ==
  LET low == acc % 268435456
      top == low \div 16777216
      rest == (low % 16777216) * 16 + d
  IN  (IF top >= 8 THEN top - 16 ELSE top) * 268435456 + rest

RECURSIVE HexValue(_, _, _)
\* The value of the hexadecimal digits f[p..q-1], stored in an int.
HexValue(f, p, q) ==
  IF p >= q THEN 0
  ELSE Shift4(HexValue(f, p, q - 1), HexVal(f[q - 1]))

\* Is there a sign character at p?
SignAt(f, p) == p <= Len(f) /\ f[p] \in {"-", "+"}

\* "%[^\n]": the characters up to the end of the line, at least one.
ScanLine(f, p) ==
  LET q == EndOfLine(f, p)
  IN  [ok |-> q > p, val |-> SubSeq(f, p, q - 1), pos |-> q]

\* "%s": skip white space, then the characters up to the next white space.
ScanS(f, p) ==
  LET s == SkipSpace(f, p)
      q == EndOfWord(f, s)
  IN  [ok |-> q > s, val |-> SubSeq(f, s, q - 1), pos |-> q]

\* "%d", "%ld": skip white space, an optional sign, decimal digits.
ScanD(f, p) ==
  LET s == SkipSpace(f, p)
      b == IF SignAt(f, s) THEN s + 1 ELSE s
      q == EndOfDigits(f, b)
      v == DecValue(f, b, q)
  IN  [ok |-> q > b,
       val |-> IF SignAt(f, s) /\ f[s] = "-" THEN 0 - v ELSE v,
       pos |-> q]

\* "%hd": as "%d", stored in 16 bits.
ScanHD(f, p) ==
  LET r == ScanD(f, p)
      w == r.val % 65536
  IN  [r EXCEPT !.val = IF w >= 32768 THEN w - 65536 ELSE w]

\* "%x": skip white space, an optional sign, an optional 0x, hexadecimal
\* digits.
ScanX(f, p) ==
  LET s == SkipSpace(f, p)
      a == IF SignAt(f, s) THEN s + 1 ELSE s
      b == IF a + 2 <= Len(f) /\ f[a] = "0" /\ f[a + 1] \in {"x", "X"}
                /\ IsHexDigit(f[a + 2])
             THEN a + 2 ELSE a
      q == EndOfHex(f, b)
      v == HexValue(f, b, q)
  IN  [ok |-> q > b,
       val |-> IF SignAt(f, s) /\ f[s] = "-" THEN 0 - v ELSE v,
       pos |-> q]

\* The k-th fractional digit in half-millionths; the seventh digit rounds.
FracWeight(k) ==
  CASE k = 1 -> 200000 [] k = 2 -> 20000 [] k = 3 -> 2000
    [] k = 4 -> 200 [] k = 5 -> 20 [] k = 6 -> 2 [] OTHER -> 0

RECURSIVE FracValue(_, _, _, _)
FracValue(f, b, p, q) ==
  IF p >= q THEN 0
  ELSE LET k == p - b + 1
           d == HexVal(f[p])
       IN  (IF k = 7 THEN (IF d >= 5 THEN 1 ELSE 0) ELSE d * FracWeight(k))
             + FracValue(f, b, p + 1, q)

\* "%lf": skip white space, an optional sign, digits with an optional
\* decimal point and fraction (the words of the model have no exponent).
ScanLF(f, p) ==
  LET s == SkipSpace(f, p)
      b == IF SignAt(f, s) THEN s + 1 ELSE s
      i == EndOfDigits(f, b)
      dot == i <= Len(f) /\ f[i] = "."
      q == IF dot THEN EndOfDigits(f, i + 1) ELSE i
      some == i > b \/ (dot /\ q > i + 1)
      v == DecValue(f, b, i) * HalfMicro
             + (IF dot THEN FracValue(f, i + 1, i + 1, q) ELSE 0)
  IN  [ok |-> some,
       val |-> IF SignAt(f, s) /\ f[s] = "-" THEN 0 - v ELSE v,
       pos |-> IF some THEN q ELSE b]

(***************************************************************************)
(* Entity records.  A record is a function from the struct's member names  *)
(* to values; the members p0 and p1 (points) are flattened into x0..z1.    *)
(* binary_graphics_data is the chain reachable from the member: the        *)
(* sequence of its data lines, << >> being the NULL pointer.               *)
(***************************************************************************)
CodecKinds == {"3DLINE", "ARC", "ENDBLK", "SOLID"}

ChainKinds == {"3DLINE", "ARC", "LAYER"}

\* The common members of the 3DLINE and ARC structs, as memset leaves them.
\* Every pointer member is assigned by init before it is read.
ZeroCommon ==
  [id_code |-> 0, linetype |-> S_empty, layer |-> S_empty,
   elevation |-> 0, thickness |-> 0, linetype_scale |-> 0,
   visibility |-> 0, color |-> 0, paperspace |-> 0,
   graphics_data_size |-> 0, shadow_mode |-> 0,
   binary_graphics_data |-> << >>,
   dictionary_owner_soft |-> S_empty, material |-> S_empty,
   dictionary_owner_hard |-> S_empty, lineweight |-> 0,
   plot_style_name |-> S_empty, color_value |-> 0,
   color_name |-> S_empty, transparency |-> 0,
   x0 |-> 0, y0 |-> 0, z0 |-> 0,
   extr_x0 |-> 0, extr_y0 |-> 0, extr_z0 |-> 0]

dxf_3dline_new == ZeroCommon @@ [x1 |-> 0, y1 |-> 0, z1 |-> 0]

dxf_arc_new == ZeroCommon @@ [radius |-> 0, start_angle |-> 0, end_angle |-> 0]

\* dxf_binary_graphics_data_new followed by dxf_binary_graphics_data_init:
\* one node with an empty data line and no next node.
dxf_binary_graphics_data_init == <<S_empty>>

\* The check a setter makes on its argument before it stores it.
SetterAccepts(k, f, v) ==
  CASE f = "id_code" -> v >= 0
    [] f = "thickness" -> v >= 0
    [] f = "linetype_scale" -> v >= 0
    [] f = "visibility" -> v >= 0 /\ v <= 1
    [] f = "paperspace" -> v >= 0 /\ v <= 1
    [] f = "shadow_mode" -> v >= 0 /\ v <= 3
    [] f = "graphics_data_size" ->
         IF k \in {"3DLINE", "3DSOLID"} THEN v > 0 ELSE v >= 0
    [] f = "radius" -> v > 0
    [] OTHER -> TRUE

\* A setter that stores its argument without the check.
SetMember_NoCheck(k, r, f, v) == [r EXCEPT ![f] = v]

\* dxf_<entity>_set_<member> (r, v): the record after the call.
SetMember(k, r, f, v) ==
  IF SetterAccepts(k, f, v) THEN [r EXCEPT ![f] = v] ELSE r

\* The setter calls of dxf_3dline_init, in order.
Init3dlineCalls ==
  <<  <<"id_code", 0>>, <<"linetype", DXF_DEFAULT_LINETYPE>>,
      <<"layer", DXF_DEFAULT_LAYER>>,
      <<"x0", 0>>, <<"y0", 0>>, <<"z0", 0>>,
      <<"x1", 0>>, <<"y1", 0>>, <<"z1", 0>>,
      <<"extr_x0", 0>>, <<"extr_y0", 0>>, <<"extr_z0", D(1)>>,
      <<"elevation", 0>>, <<"thickness", 0>>,
      <<"linetype_scale", DXF_DEFAULT_LINETYPE_SCALE>>,
      <<"visibility", DXF_DEFAULT_VISIBILITY>>,
      <<"color", DXF_COLOR_BYLAYER>>, <<"paperspace", DXF_MODELSPACE>>,
      <<"graphics_data_size", 0>>, <<"shadow_mode", 0>>,
      <<"binary_graphics_data", dxf_binary_graphics_data_init>>,
      <<"dictionary_owner_soft", S_empty>>, <<"material", S_empty>>,
      <<"dictionary_owner_hard", S_empty>>, <<"lineweight", 0>>,
      <<"plot_style_name", S_empty>>, <<"color_value", 0>>,
      <<"color_name", S_empty>>, <<"transparency", 0>>  >>

\* The setter calls of dxf_arc_init, in order.
InitArcCalls ==
  <<  <<"id_code", 0>>, <<"linetype", DXF_DEFAULT_LINETYPE>>,
      <<"layer", DXF_DEFAULT_LAYER>>,
      <<"elevation", 0>>, <<"thickness", 0>>,
      <<"linetype_scale", DXF_DEFAULT_LINETYPE_SCALE>>,
      <<"visibility", DXF_DEFAULT_VISIBILITY>>,
      <<"color", DXF_COLOR_BYLAYER>>, <<"paperspace", DXF_MODELSPACE>>,
      <<"graphics_data_size", 0>>, <<"shadow_mode", 0>>,
      <<"binary_graphics_data", dxf_binary_graphics_data_init>>,
      <<"dictionary_owner_soft", S_empty>>, <<"material", S_empty>>,
      <<"dictionary_owner_hard", S_empty>>, <<"lineweight", 0>>,
      <<"plot_style_name", S_empty>>, <<"color_value", 0>>,
      <<"color_name", S_empty>>, <<"transparency", 0>>,
      <<"x0", 0>>, <<"y0", 0>>, <<"z0", 0>>,
      <<"radius", 0>>, <<"start_angle", 0>>, <<"end_angle", 0>>,
      <<"extr_x0", 0>>, <<"extr_y0", 0>>, <<"extr_z0", D(1)>>  >>

RECURSIVE ApplyCalls(_, _, _, _)
ApplyCalls(k, r, calls, i) ==
  IF i > Len(calls) THEN r
  ELSE ApplyCalls(k, SetMember(k, r, calls[i][1], calls[i][2]), calls, i + 1)

dxf_3dline_init == ApplyCalls("3DLINE", dxf_3dline_new, Init3dlineCalls, 1)

dxf_arc_init == ApplyCalls("ARC", dxf_arc_new, InitArcCalls, 1)

\* The DxfSolid struct as memset leaves it; linetype, layer and the owner
\* handles are pointers that init assigns before they are read.
dxf_solid_new ==
  [id_code |-> 0, linetype |-> S_empty, layer |-> S_empty,
   x0 |-> 0, y0 |-> 0, z0 |-> 0, x1 |-> 0, y1 |-> 0, z1 |-> 0,
   x2 |-> 0, y2 |-> 0, z2 |-> 0, x3 |-> 0, y3 |-> 0, z3 |-> 0,
   extr_x0 |-> 0, extr_y0 |-> 0, extr_z0 |-> 0,
   elevation |-> 0, thickness |-> 0, linetype_scale |-> 0,
   visibility |-> 0, color |-> 0, paperspace |-> 0,
   dictionary_owner_soft |-> S_empty, dictionary_owner_hard |-> S_empty]

\* dxf_solid_init assigns the members itself.
dxf_solid_init ==
  [dxf_solid_new EXCEPT
     !.id_code = 0,
     !.linetype = DXF_DEFAULT_LINETYPE,
     !.layer = DXF_DEFAULT_LAYER,
     !.x0 = 0, !.y0 = 0, !.z0 = 0, !.x1 = 0, !.y1 = 0, !.z1 = 0,
     !.x2 = 0, !.y2 = 0, !.z2 = 0, !.x3 = 0, !.y3 = 0, !.z3 = 0,
     !.extr_x0 = 0, !.extr_y0 = 0, !.extr_z0 = 0,
     !.elevation = 0, !.thickness = 0,
     !.linetype_scale = DXF_DEFAULT_LINETYPE_SCALE,
     !.visibility = DXF_DEFAULT_VISIBILITY,
     !.color = DXF_COLOR_BYLAYER,
     !.paperspace = DXF_MODELSPACE,
     !.dictionary_owner_soft = S_empty,
     !.dictionary_owner_hard = S_empty]

dxf_endblk_init ==
  [id_code |-> 0, layer |-> DXF_DEFAULT_LAYER,
   dictionary_owner_soft |-> S_empty]

dxf_layer_init ==
  [layer_name |-> S_empty, linetype |-> DXF_DEFAULT_LINETYPE,
   color |-> DXF_COLOR_BYLAYER, flag |-> 0, plotting_flag |-> 0,
   material |-> S_empty, lineweight |-> 0, plot_style_name |-> S_empty]

\* dxf_<entity>_new followed by dxf_<entity>_init.
InitRec(k) ==
  CASE k = "3DLINE" -> dxf_3dline_init
    [] k = "ARC" -> dxf_arc_init
    [] k = "ENDBLK" -> dxf_endblk_init
    [] k = "SOLID" -> dxf_solid_init
    [] k = "LAYER" -> dxf_layer_init

(***************************************************************************)
(* The heap of a chain of records.  A record n owns the blocks <<n, part>>:*)
(* its struct and the strings and sub-records init allocates for it.       *)
(***************************************************************************)
Nodes == 1..MaxNodes

\* The blocks init allocates for a record.
AllocParts(k) ==
  CASE k = "3DLINE" ->
         {"struct", "linetype", "layer", "p0", "p1", "binary_graphics_data",
          "dictionary_owner_soft", "material", "dictionary_owner_hard",
          "plot_style_name", "color_name"}
    [] k = "ARC" ->
         {"struct", "linetype", "layer", "p0", "binary_graphics_data",
          "dictionary_owner_soft", "material", "dictionary_owner_hard",
          "plot_style_name", "color_name"}
    [] k = "LAYER" ->
         {"struct", "layer_name", "linetype", "material", "plot_style_name"}

\* The blocks dxf_<entity>_free releases.  dxf_3dline_free hands free () the
\* strdup copies its string getters return, so the strings the record owns
\* stay allocated; dxf_arc_free does not release the graphics data.
FreeParts(k) ==
  CASE k = "3DLINE" -> {"struct", "p0", "p1", "binary_graphics_data"}
    [] k = "ARC" ->
         {"struct", "linetype", "layer", "p0",
          "dictionary_owner_soft", "material", "dictionary_owner_hard",
          "plot_style_name", "color_name"}
    [] k = "LAYER" ->
         {"struct", "layer_name", "linetype", "material", "plot_style_name"}

Blocks(n, parts) == {<<n, p>> : p \in parts}

(***************************************************************************)
(* Getters.  A getter that finds an invalid value in the member returns    *)
(* EXIT_FAILURE in the type of the member.                                 *)
(***************************************************************************)
\* dxf_<entity>_get_<member> (r) for the int and int16_t members.
GetInt(k, r, f) ==
  CASE f = "id_code" -> IF r.id_code < 0 THEN EXIT_FAILURE ELSE r.id_code
    [] f = "visibility" ->
         IF r.visibility < 0 \/ r.visibility > 1
           THEN EXIT_FAILURE ELSE r.visibility
    [] f = "shadow_mode" ->
         IF r.shadow_mode < 0 \/ r.shadow_mode > 3
           THEN EXIT_FAILURE ELSE r.shadow_mode
    [] OTHER -> r[f]

\* dxf_<entity>_get_<member> (r) for the double members.
GetDouble(k, r, f) ==
  CASE f = "thickness" ->
         IF r.thickness < 0 THEN D(EXIT_FAILURE) ELSE r.thickness
    [] f = "linetype_scale" ->
         IF r.linetype_scale < 0 THEN D(EXIT_FAILURE) ELSE r.linetype_scale
    [] f = "radius" ->
         IF r.radius < 0 \/ r.radius = 0 THEN D(EXIT_FAILURE) ELSE r.radius
    [] OTHER -> r[f]

(***************************************************************************)
(* Write.  Each write operator yields [ret, out, rec]: what the function   *)
(* returns, the characters it writes to fp->fp and the record it leaves.   *)
(***************************************************************************)
\* The group-code line of the format strings: "  5", " 10", "100".
GroupCode(n) ==
  (IF n < 10 THEN <<" ", " ">> ELSE IF n < 100 THEN <<" ">> ELSE << >>)
    \o FmtU(n)

\* "%x" of an int: a negative int prints as its 32-bit two's complement.
FmtX32(n) ==
  IF n >= 0 THEN FmtX(n)
  ELSE LET u == (n + 2147483647) + 1
       IN  <<HexDigits[8 + (u \div 268435456) + 1]>>
             \o <<HexDigits[((u \div 16777216) % 16) + 1],
                  HexDigits[((u \div 1048576) % 16) + 1],
                  HexDigits[((u \div 65536) % 16) + 1],
                  HexDigits[((u \div 4096) % 16) + 1],
                  HexDigits[((u \div 256) % 16) + 1],
                  HexDigits[((u \div 16) % 16) + 1],
                  HexDigits[(u % 16) + 1]>>

\* An fprintf call under an if.
Opt(cond, chars) == IF cond THEN chars ELSE << >>

RECURSIVE WriteDataLines(_, _)
\* The loop over the binary graphics data chain: one 310 pair per node.
WriteDataLines(chain, i) ==
  IF i > Len(chain) THEN << >>
  ELSE Pair(GroupCode(310), chain[i]) \o WriteDataLines(chain, i + 1)

\* The application-defined groups (code 102) of the owner dictionaries.
WriteOwnerGroups(v, soft, hard) ==
  Opt(soft # S_empty /\ v >= AutoCAD_14,
      Pair(GroupCode(102), S_REACTORS) \o Pair(GroupCode(330), soft)
        \o Pair(GroupCode(102), S_close))
  \o Opt(hard # S_empty /\ v >= AutoCAD_14,
         Pair(GroupCode(102), S_XDICTIONARY) \o Pair(GroupCode(360), hard)
           \o Pair(GroupCode(102), S_close))

\* The extrusion vector, written when no component has its default value.
WriteExtrusion(k, v, r) ==
  Opt(v >= AutoCAD_12
        /\ GetDouble(k, r, "extr_x0") # 0
        /\ GetDouble(k, r, "extr_y0") # 0
        /\ GetDouble(k, r, "extr_z0") # D(1),
      Pair(GroupCode(210), FmtF(GetDouble(k, r, "extr_x0")))
        \o Pair(GroupCode(220), FmtF(GetDouble(k, r, "extr_y0")))
        \o Pair(GroupCode(230), FmtF(GetDouble(k, r, "extr_z0"))))

\* The pre-write check of dxf_3dline_write: the two points coincide.
Line3dDegenerate_Never(r) == FALSE

Line3dDegenerate(r) ==
  /\ GetDouble("3DLINE", r, "x0") = GetDouble("3DLINE", r, "x1")
  /\ GetDouble("3DLINE", r, "y0") = GetDouble("3DLINE", r, "y1")
  /\ GetDouble("3DLINE", r, "z0") = GetDouble("3DLINE", r, "z1")

\* dxf_3dline_write (fp, line), with v = fp->acad_version_number, in a
\* build without BUILD_64 (with it the group code 92 is written as 160).
\* dxf_entity_skip, called on the degenerate line, is handed the entity
\* name only and has no access to the stream.
dxf_3dline_write(v, line) ==
  IF Line3dDegenerate(line)
    THEN [ret |-> EXIT_FAILURE, out |-> << >>, rec |-> line]
  ELSE
    LET k == "3DLINE"
        r == IF line.layer = S_empty
               THEN SetMember(k, line, "layer", DXF_DEFAULT_LAYER)
               ELSE line
        dxf_entity_name == IF v > AutoCAD_11 THEN S_LINE ELSE S_3DLINE
    IN  [ret |-> EXIT_SUCCESS,
         rec |-> r,
         out |->
           Pair(GroupCode(0), dxf_entity_name)
           \o Opt(GetInt(k, r, "id_code") # -1,
                  Pair(GroupCode(5), FmtX32(GetInt(k, r, "id_code"))))
           \o WriteOwnerGroups(v, r.dictionary_owner_soft,
                               r.dictionary_owner_hard)
           \o Opt(v >= AutoCAD_13, Pair(GroupCode(100), S_AcDbEntity))
           \o Opt(GetInt(k, r, "paperspace") = DXF_PAPERSPACE
                    /\ v >= AutoCAD_13,
                  Pair(GroupCode(67), FmtD(DXF_PAPERSPACE)))
           \o Pair(GroupCode(8), r.layer)
           \o Opt(r.linetype # DXF_DEFAULT_LINETYPE,
                  Pair(GroupCode(6), r.linetype))
           \o Opt(v <= AutoCAD_11 /\ DXF_FLATLAND # 0
                    /\ GetDouble(k, r, "elevation") # 0,
                  Pair(GroupCode(38), FmtF(GetDouble(k, r, "elevation"))))
           \o Opt(v >= AutoCAD_2008 /\ r.material # S_empty,
                  Pair(GroupCode(347), r.material))
           \o Opt(GetInt(k, r, "color") # DXF_COLOR_BYLAYER,
                  Pair(GroupCode(62), FmtD(GetInt(k, r, "color"))))
           \o Opt(v >= AutoCAD_2002,
                  Pair(GroupCode(370), FmtD(GetInt(k, r, "lineweight"))))
           \o Opt(GetDouble(k, r, "linetype_scale") # D(1)
                    /\ v >= AutoCAD_13,
                  Pair(GroupCode(48),
                       FmtF(GetDouble(k, r, "linetype_scale"))))
           \o Opt(GetInt(k, r, "visibility") # 0 /\ v >= AutoCAD_13,
                  Pair(GroupCode(60), FmtD(GetInt(k, r, "visibility"))))
           \o Opt(v >= AutoCAD_2000,
                  Pair(GroupCode(92),
                       FmtD(GetInt(k, r, "graphics_data_size")))
                    \o WriteDataLines(r.binary_graphics_data, 1))
           \o Opt(v >= AutoCAD_2004,
                  Pair(GroupCode(420), FmtD(GetInt(k, r, "color_value")))
                    \o Pair(GroupCode(430), r.color_name)
                    \o Pair(GroupCode(440),
                            FmtD(GetInt(k, r, "transparency"))))
           \o Opt(v >= AutoCAD_2009,
                  Pair(GroupCode(390), r.plot_style_name)
                    \o Pair(GroupCode(284),
                            FmtD(GetInt(k, r, "shadow_mode"))))
           \o Opt(v >= AutoCAD_13, Pair(GroupCode(100), S_AcDbLine))
           \o Opt(GetDouble(k, r, "thickness") # 0,
                  Pair(GroupCode(39), FmtF(GetDouble(k, r, "thickness"))))
           \o Pair(GroupCode(10), FmtF(GetDouble(k, r, "x0")))
           \o Pair(GroupCode(20), FmtF(GetDouble(k, r, "y0")))
           \o Pair(GroupCode(30), FmtF(GetDouble(k, r, "z0")))
           \o Pair(GroupCode(11), FmtF(GetDouble(k, r, "x1")))
           \o Pair(GroupCode(21), FmtF(GetDouble(k, r, "y1")))
           \o Pair(GroupCode(31), FmtF(GetDouble(k, r, "z1")))
           \o WriteExtrusion(k, v, r)]

\* The pre-write checks of dxf_arc_write on the angles.
ArcAnglesRefused_NoRange(r) ==
  GetDouble("ARC", r, "start_angle") = GetDouble("ARC", r, "end_angle")

ArcAnglesRefused(r) ==
  \/ GetDouble("ARC", r, "start_angle") = GetDouble("ARC", r, "end_angle")
  \/ GetDouble("ARC", r, "start_angle") > D(360)
  \/ GetDouble("ARC", r, "start_angle") < 0
  \/ GetDouble("ARC", r, "end_angle") > D(360)
  \/ GetDouble("ARC", r, "end_angle") < 0

\* The pre-write check of dxf_arc_write on the radius: it compares what
\* dxf_arc_get_radius returns with 0.0.
ArcRadiusRefused(r) == GetDouble("ARC", r, "radius") = 0

\* dxf_arc_write (fp, arc), with v = fp->acad_version_number.
dxf_arc_write(v, arc) ==
  IF ArcAnglesRefused(arc) \/ ArcRadiusRefused(arc)
    THEN [ret |-> EXIT_FAILURE, out |-> << >>, rec |-> arc]
  ELSE
    LET k == "ARC"
        r1 == IF arc.linetype = S_empty
                THEN SetMember(k, arc, "linetype", DXF_DEFAULT_LINETYPE)
                ELSE arc
        r == IF r1.layer = S_empty
               THEN SetMember(k, r1, "layer", DXF_DEFAULT_LAYER)
               ELSE r1
    IN  [ret |-> EXIT_SUCCESS,
         rec |-> r,
         out |->
           Pair(GroupCode(0), S_ARC)
           \o Opt(GetInt(k, r, "id_code") # -1,
                  Pair(GroupCode(5), FmtX32(GetInt(k, r, "id_code"))))
           \o WriteOwnerGroups(v, r.dictionary_owner_soft,
                               r.dictionary_owner_hard)
           \o Opt(v >= AutoCAD_13, Pair(GroupCode(100), S_AcDbEntity))
           \o Opt(GetInt(k, r, "paperspace") = DXF_PAPERSPACE,
                  Pair(GroupCode(67), FmtD(DXF_PAPERSPACE)))
           \o Pair(GroupCode(8), r.layer)
           \o Opt(r.linetype # DXF_DEFAULT_LINETYPE,
                  Pair(GroupCode(6), r.linetype))
           \o Opt(v <= AutoCAD_11 /\ DXF_FLATLAND # 0
                    /\ GetDouble(k, r, "elevation") # 0,
                  Pair(GroupCode(38), FmtF(GetDouble(k, r, "elevation"))))
           \o Opt(GetInt(k, r, "color") # DXF_COLOR_BYLAYER,
                  Pair(GroupCode(62), FmtD(GetInt(k, r, "color"))))
           \o Opt(GetDouble(k, r, "linetype_scale") # D(1),
                  Pair(GroupCode(48),
                       FmtF(GetDouble(k, r, "linetype_scale"))))
           \o Opt(GetInt(k, r, "visibility") # 0,
                  Pair(GroupCode(60), FmtD(GetInt(k, r, "visibility"))))
           \o Opt(v >= AutoCAD_13, Pair(GroupCode(100), S_AcDbCircle))
           \o Opt(GetDouble(k, r, "thickness") # 0,
                  Pair(GroupCode(39), FmtF(GetDouble(k, r, "thickness"))))
           \o Pair(GroupCode(10), FmtF(GetDouble(k, r, "x0")))
           \o Pair(GroupCode(20), FmtF(GetDouble(k, r, "y0")))
           \o Pair(GroupCode(30), FmtF(GetDouble(k, r, "z0")))
           \o Pair(GroupCode(40), FmtF(GetDouble(k, r, "radius")))
           \o Opt(v >= AutoCAD_13, Pair(GroupCode(100), S_AcDbArc))
           \o Pair(GroupCode(50), FmtF(GetDouble(k, r, "start_angle")))
           \o Pair(GroupCode(51), FmtF(GetDouble(k, r, "end_angle")))
           \o WriteExtrusion(k, v, r)]

\* dxf_endblk_write (fp, endblk), with v = fp->acad_version_number.
dxf_endblk_write(v, endblk) ==
  [ret |-> EXIT_SUCCESS,
   rec |-> endblk,
   out |->
     Pair(GroupCode(0), S_ENDBLK)
     \o Opt(v >= AutoCAD_13, Pair(GroupCode(5), FmtX32(endblk.id_code)))
     \o Opt(v >= AutoCAD_13,
            Pair(GroupCode(100), S_AcDbEntity)
              \o Pair(GroupCode(8), endblk.layer)
              \o Pair(GroupCode(100), S_AcDbBlockEnd))]

\* dxf_solid_write (fp, solid), with v = fp->acad_version_number; it reads
\* the members of the struct, not through getters.
dxf_solid_write(v, solid) ==
  LET k == "SOLID"
      r1 == IF solid.linetype = S_empty
              THEN [solid EXCEPT !.linetype = DXF_DEFAULT_LINETYPE]
              ELSE solid
      r == IF r1.layer = S_empty
             THEN [r1 EXCEPT !.layer = DXF_DEFAULT_LAYER]
             ELSE r1
  IN  [ret |-> EXIT_SUCCESS,
       rec |-> r,
       out |->
         Pair(GroupCode(0), S_SOLID)
         \o Opt(r.id_code # -1, Pair(GroupCode(5), FmtX32(r.id_code)))
         \o WriteOwnerGroups(v, r.dictionary_owner_soft,
                             r.dictionary_owner_hard)
         \o Opt(v >= AutoCAD_13, Pair(GroupCode(100), S_AcDbEntity))
         \o Opt(r.paperspace = DXF_PAPERSPACE,
                Pair(GroupCode(67), FmtD(DXF_PAPERSPACE)))
         \o Pair(GroupCode(8), r.layer)
         \o Opt(r.linetype # DXF_DEFAULT_LINETYPE,
                Pair(GroupCode(6), r.linetype))
         \o Opt(v <= AutoCAD_11 /\ DXF_FLATLAND # 0 /\ r.elevation # 0,
                Pair(GroupCode(38), FmtF(r.elevation)))
         \o Opt(r.color # DXF_COLOR_BYLAYER,
                Pair(GroupCode(62), FmtD(r.color)))
         \o Opt(r.linetype_scale # D(1),
                Pair(GroupCode(48), FmtF(r.linetype_scale)))
         \o Opt(r.visibility # 0, Pair(GroupCode(60), FmtD(r.visibility)))
         \o Opt(v >= AutoCAD_13, Pair(GroupCode(100), S_AcDbTrace))
         \o Pair(GroupCode(10), FmtF(r.x0))
         \o Pair(GroupCode(20), FmtF(r.y0))
         \o Pair(GroupCode(30), FmtF(r.z0))
         \o Pair(GroupCode(11), FmtF(r.x1))
         \o Pair(GroupCode(21), FmtF(r.y1))
         \o Pair(GroupCode(31), FmtF(r.z1))
         \o Pair(GroupCode(12), FmtF(r.x2))
         \o Pair(GroupCode(22), FmtF(r.y2))
         \o Pair(GroupCode(32), FmtF(r.z2))
         \o Pair(GroupCode(13), FmtF(r.x3))
         \o Pair(GroupCode(23), FmtF(r.y3))
         \o Pair(GroupCode(33), FmtF(r.z3))
         \o Opt(r.thickness # 0, Pair(GroupCode(39), FmtF(r.thickness)))
         \o WriteExtrusion(k, v, r)]

\* A write that leaves the record with the next handle.
dxf_write_NextHandle(k, v, r) ==
  LET w == CASE k = "3DLINE" -> dxf_3dline_write(v, r)
             [] k = "ARC" -> dxf_arc_write(v, r)
             [] k = "ENDBLK" -> dxf_endblk_write(v, r)
             [] k = "SOLID" -> dxf_solid_write(v, r)
  IN  [w EXCEPT !.rec = [w.rec EXCEPT !.id_code = @ + 1]]

\* dxf_<entity>_write for the entity type k.
dxf_write(k, v, r) ==
  CASE k = "3DLINE" -> dxf_3dline_write(v, r)
    [] k = "ARC" -> dxf_arc_write(v, r)
    [] k = "ENDBLK" -> dxf_endblk_write(v, r)
    [] k = "SOLID" -> dxf_solid_write(v, r)

(***************************************************************************)
(* State.                                                                  *)
(***************************************************************************)
VARIABLES
  kind,        \* the entity type the run is about
  live,        \* chain heap: the allocated blocks
  next,        \* chain heap: the next member of every record
  op,          \* chain heap: the last call made and what it returned
  rec,         \* codec: the record handed to write
  nsets,       \* codec: number of setter calls made on rec
  ver,         \* codec: fp->acad_version_number
  out,         \* codec: the characters written to the output stream
  wret,        \* codec: what the calls of write returned, in order
  infile,      \* codec: the characters of the input stream
  pos,         \* codec: the position of the input stream
  temp_string, \* codec: the local buffer of read
  dec,         \* codec: the record read fills
  diag,        \* codec: number of warnings read has written to stderr
  pc,          \* codec: where read is
  iter,        \* codec: number of passes through the loop of read
  ferr,        \* codec: ferror (fp->fp)
  pt,          \* points: the two points handed to create_from_points
  ln,          \* points: the line create_from_points has made
  res,         \* points: the last helper called and what it returned
  solid,       \* 3DSOLID: the record handed to dxf_3dsolid_write
  wl,          \* 3DSOLID: the locals of dxf_3dsolid_write
  acc,         \* accessors: the last getter or setter called and its result
  tables,      \* tables: the list handed to dxf_table_write_tables
  tw,          \* tables: the locals of dxf_table_write_tables
  dn           \* donut: the arguments of dxf_donut_write_lowlevel, the
               \* calls it has made and what it returned

chainVars == <<live, next, op>>

writeVars == <<rec, nsets, out, wret>>

readVars == <<infile, pos, temp_string, dec, diag, pc, iter, ferr>>

pointVars == <<pt, ln, res>>

solid3dVars == <<solid, wl>>

accessVars == <<acc>>

tableVars == <<tables, tw>>

donutVars == <<dn>>

auxVars == <<solid3dVars, accessVars, tableVars, donutVars>>

vars == <<kind, ver, chainVars, writeVars, readVars, pointVars, auxVars>>

NoOp == [name |-> "none", node |-> NULL, ret |-> EXIT_SUCCESS, chain |-> << >>]

ChainIdle ==
  /\ live = {}
  /\ next = [n \in Nodes |-> NULL]
  /\ op = NoOp

WriteIdle ==
  /\ rec = << >>
  /\ nsets = 0
  /\ out = << >>
  /\ wret = << >>

ReadIdle ==
  /\ infile = << >>
  /\ pos = 1
  /\ temp_string = << >>
  /\ dec = << >>
  /\ diag = 0
  /\ pc = "idle"
  /\ iter = 0
  /\ ferr = FALSE

PointIdle ==
  /\ pt = << >>
  /\ ln = << >>
  /\ res = << >>

Solid3dIdle ==
  /\ solid = << >>
  /\ wl = << >>

AccessIdle == acc = << >>

TableIdle ==
  /\ tables = << >>
  /\ tw = << >>

DonutIdle == dn = << >>

AuxIdle == Solid3dIdle /\ AccessIdle /\ TableIdle /\ DonutIdle

(***************************************************************************)
(* Chains of records.                                                      *)
(***************************************************************************)
Allocated(lv, n) == <<n, "struct">> \in lv

RECURSIVE ChainFrom(_, _, _)
\* The records reached from n through next, at most fuel of them.
ChainFrom(nx, n, fuel) ==
  IF n = NULL \/ fuel = 0 THEN << >>
  ELSE <<n>> \o ChainFrom(nx, nx[n], fuel - 1)

Chain(n) == ChainFrom(next, n, MaxNodes)

InChain(c, n) == \E i \in 1..Len(c) : c[i] = n

\* Every record of the chain is allocated: walking it is defined.
ChainLive(n) ==
  \A i \in 1..Len(Chain(n)) : Allocated(live, Chain(n)[i])

\* dxf_<entity>_get_last (n): the record of the chain whose next is NULL.
dxf_get_last(n) == Chain(n)[Len(Chain(n))]

\* dxf_<entity>_free (n), with the heap lv and the links nx: what it
\* returns and the heap it leaves.
dxf_free_NoNextCheck(k, lv, nx, n) ==
  [ret |-> EXIT_SUCCESS, live |-> lv \ Blocks(n, FreeParts(k))]

dxf_free(k, lv, nx, n) ==
  IF nx[n] # NULL
    THEN [ret |-> EXIT_FAILURE, live |-> lv]
    ELSE [ret |-> EXIT_SUCCESS, live |-> lv \ Blocks(n, FreeParts(k))]

RECURSIVE dxf_free_chain(_, _, _, _)
\* dxf_<entity>_free_chain: the heap after the loop, started at record n.
dxf_free_chain(k, lv, nx, n) ==
  IF n = NULL THEN lv
  ELSE LET it == nx[n]
       IN  dxf_free_chain(k, dxf_free(k, lv, nx, n).live, nx, it)

\* dxf_<entity>_set_next (n, nxt), with the links nx: what it returns and
\* the links it leaves.  A NULL record and a NULL successor are refused.
dxf_set_next(nx, n, nxt) ==
  IF n = NULL THEN [ret |-> NULL, next |-> nx]
  ELSE IF nxt = NULL THEN [ret |-> NULL, next |-> nx]
  ELSE [ret |-> n, next |-> [nx EXCEPT ![n] = nxt]]

\* dxf_<entity>_new and dxf_<entity>_init: a new record n.
NewRecord(n) ==
  /\ ~Allocated(live, n)
  /\ live' = live \cup Blocks(n, AllocParts(kind))
  /\ next' = [next EXCEPT ![n] = NULL]
  /\ op' = [name |-> "init", node |-> n, ret |-> EXIT_SUCCESS,
            chain |-> <<n>>]

\* dxf_<entity>_set_next (dxf_<entity>_get_last (h), n): append the single
\* record n to the chain of h.
AppendRecord(h, n) ==
  /\ Allocated(live, h) /\ Allocated(live, n)
  /\ ChainLive(h)
  /\ next[n] = NULL
  /\ ~InChain(Chain(h), n)
  /\ \A m \in Nodes : Allocated(live, m) => next[m] # n
  /\ next' = [next EXCEPT ![dxf_get_last(h)] = n]
  /\ live' = live
  /\ op' = [name |-> "append", node |-> n, ret |-> EXIT_SUCCESS,
            chain |-> Chain(h) \o <<n>>]

\* dxf_<entity>_set_next (n, NULL): the call that is to detach record n
\* from its successors.  A layer has no set_next function.
SetNextNull(n) ==
  /\ kind \in {"3DLINE", "ARC"}
  /\ Allocated(live, n)
  /\ next' = dxf_set_next(next, n, NULL).next
  /\ live' = live
  /\ op' = [name |-> "set_next", node |-> n,
            ret |-> IF dxf_set_next(next, n, NULL).ret = NULL
                      THEN EXIT_FAILURE ELSE EXIT_SUCCESS,
            chain |-> <<n>>]

\* dxf_<entity>_free (n).
FreeOne(n) ==
  /\ Allocated(live, n)
  /\ live' = dxf_free(kind, live, next, n).live
  /\ next' = next
  /\ op' = [name |-> "free", node |-> n,
            ret |-> dxf_free(kind, live, next, n).ret, chain |-> <<n>>]

\* dxf_<entity>_free_chain (h).
FreeChain(h) ==
  /\ Allocated(live, h)
  /\ ChainLive(h)
  /\ live' = dxf_free_chain(kind, live, next, h)
  /\ next' = next
  /\ op' = [name |-> "free_chain", node |-> h, ret |-> EXIT_SUCCESS,
            chain |-> Chain(h)]

InitChain ==
  /\ kind \in ChainKinds
  /\ ver = AutoCAD_2000
  /\ ChainIdle /\ WriteIdle /\ ReadIdle /\ PointIdle /\ AuxIdle

NextChain ==
  \/ \E n \in Nodes : NewRecord(n) /\ UNCHANGED <<kind, ver, writeVars, readVars, pointVars, auxVars>>
  \/ \E h, n \in Nodes : AppendRecord(h, n) /\ UNCHANGED <<kind, ver, writeVars, readVars, pointVars, auxVars>>
  \/ \E n \in Nodes : SetNextNull(n) /\ UNCHANGED <<kind, ver, writeVars, readVars, pointVars, auxVars>>
  \/ \E n \in Nodes : FreeOne(n) /\ UNCHANGED <<kind, ver, writeVars, readVars, pointVars, auxVars>>
  \/ \E h \in Nodes : FreeChain(h) /\ UNCHANGED <<kind, ver, writeVars, readVars, pointVars, auxVars>>

SpecChain == InitChain /\ [][NextChain]_vars

\* C1: after free-chain is called on the head of a chain of n >= 1 records,
\* no record of that chain is still allocated.
C1_FreeChainFreesAll ==
  op.name = "free_chain" =>
    \A i \in 1..Len(op.chain) : ~Allocated(live, op.chain[i])

\* C2: free-one on a record whose next link is not NULL returns an error
\* and frees nothing: the heap and the links are as before the call.
C2_FreeOneRefusesNonTail ==
  [][\A n \in Nodes :
       (op'.name = "free" /\ op'.node = n /\ Allocated(live, n)
          /\ next[n] # NULL)
       => (op'.ret = EXIT_FAILURE /\ live' = live /\ next' = next)]_vars

\* A free-one call on a non-tail record was refused.
C2_Witness ==
  /\ op.name = "free"
  /\ op.ret = EXIT_FAILURE
  /\ next[op.node] # NULL
  /\ Blocks(op.node, AllocParts(kind)) \subseteq live

\* C22: after set-next is called on a record with a NULL successor the
\* record's next link is NULL, and a free-one call on that record that
\* follows succeeds.
C22_DetachThenFree ==
  [][/\ op'.name = "set_next" => next'[op'.node] = NULL
     /\ (op.name = "set_next" /\ op'.name = "free" /\ op'.node = op.node)
          => op'.ret = EXIT_SUCCESS]_vars

(***************************************************************************)
(* Encoding: a record is built with the setters and handed to write.       *)
(***************************************************************************)
S_A == <<"A">>

S_1f == <<"1", "f">>

S_2f == <<"2", "f">>

\* The arguments the setters are called with.
CommonInputs ==
  { <<"id_code", 26>>, <<"id_code", -1>>,
    <<"linetype", S_DASHED>>, <<"layer", S_A>>, <<"layer", S_empty>>,
    <<"elevation", D(1)>>, <<"thickness", D(2)>>, <<"thickness", -D(1)>>,
    <<"linetype_scale", D(2)>>, <<"visibility", 1>>, <<"visibility", 5>>,
    <<"color", 1>>, <<"paperspace", DXF_PAPERSPACE>>, <<"paperspace", 2>>,
    <<"graphics_data_size", 4>>, <<"shadow_mode", 2>>, <<"shadow_mode", 4>>,
    <<"dictionary_owner_soft", S_1f>>, <<"material", S_2f>>,
    <<"dictionary_owner_hard", S_2f>>, <<"lineweight", 25>>,
    <<"plot_style_name", S_A>>, <<"color_value", 7>>,
    <<"color_name", S_A>>, <<"transparency", 3>>,
    <<"x0", D(1)>>, <<"y0", D(1)>>, <<"z0", D(1)>>,
    <<"extr_x0", D(1)>>, <<"extr_y0", D(1)>>, <<"extr_z0", 0>> }

SetterInputs(k) ==
  CASE k = "3DLINE" ->
         CommonInputs \cup
           { <<"x1", D(1)>>, <<"x1", 1>>, <<"y1", D(1)>>, <<"z1", D(1)>>,
             <<"x0", 0>>, <<"graphics_data_size", 0>> }
    [] k = "ARC" ->
         CommonInputs \cup
           { <<"radius", D(2)>>, <<"radius", 0>>, <<"radius", 3>>,
             <<"start_angle", D(10)>>, <<"start_angle", D(370)>>,
             <<"start_angle", -D(10)>>, <<"start_angle", 0>>,
             <<"end_angle", D(10)>>, <<"end_angle", D(90)>>,
             <<"end_angle", D(370)>>, <<"end_angle", -D(10)>> }
    [] k = "ENDBLK" ->
         { <<"id_code", 26>>, <<"id_code", -1>>, <<"layer", S_A>>,
           <<"layer", S_empty>>, <<"dictionary_owner_soft", S_1f>> }
    [] k = "SOLID" ->
         { <<"id_code", 26>>, <<"id_code", -1>>,
           <<"linetype", S_DASHED>>, <<"linetype", S_empty>>,
           <<"layer", S_A>>, <<"layer", S_empty>>,
           <<"elevation", D(1)>>, <<"thickness", D(2)>>,
           <<"linetype_scale", D(2)>>, <<"visibility", 1>>,
           <<"color", 1>>, <<"paperspace", DXF_PAPERSPACE>>,
           <<"dictionary_owner_soft", S_1f>>,
           <<"dictionary_owner_hard", S_2f>>,
           <<"x0", D(1)>>, <<"y1", D(1)>>, <<"z2", D(1)>>, <<"x3", D(2)>>,
           <<"extr_x0", D(1)>>, <<"extr_y0", D(1)>>, <<"extr_z0", D(1)>> }

\* A call dxf_<entity>_set_<f> (rec, v); the end-of-block record and the
\* solid have no setters, their members are assigned.
SetField(f, v) ==
  /\ wret = << >>
  /\ nsets < MaxSets
  /\ <<f, v>> \in SetterInputs(kind)
  /\ rec' = IF kind \in {"ENDBLK", "SOLID"} THEN [rec EXCEPT ![f] = v]
            ELSE SetMember(kind, rec, f, v)
  /\ nsets' = nsets + 1
  /\ UNCHANGED <<out, wret>>

\* A call dxf_<entity>_write (fp, rec) on a stream of revision ver.
Write ==
  /\ wret = << >>
  /\ LET w == dxf_write(kind, ver, rec)
     IN  /\ out' = out \o w.out
         /\ wret' = Append(wret, w.ret)
         /\ rec' = w.rec
  /\ UNCHANGED nsets

\* A second call dxf_<entity>_write (fp, rec), on the record and the stream
\* the first call has left.
WriteAgain ==
  /\ Len(wret) = 1
  /\ LET w == dxf_write(kind, ver, rec)
     IN  /\ out' = out \o w.out
         /\ wret' = Append(wret, w.ret)
         /\ rec' = w.rec
  /\ UNCHANGED nsets

InitEncode ==
  /\ kind \in CodecKinds
  /\ ver \in Versions
  /\ ChainIdle /\ ReadIdle /\ PointIdle /\ AuxIdle
  /\ rec = InitRec(kind)
  /\ nsets = 0
  /\ out = << >>
  /\ wret = << >>

NextEncode ==
  \/ \E c \in SetterInputs(kind) :
       SetField(c[1], c[2]) /\ UNCHANGED <<kind, ver, chainVars, readVars, pointVars, auxVars>>
  \/ Write /\ UNCHANGED <<kind, ver, chainVars, readVars, pointVars, auxVars>>
  \/ WriteAgain /\ UNCHANGED <<kind, ver, chainVars, readVars, pointVars, auxVars>>

SpecEncode == InitEncode /\ [][NextEncode]_vars

\* C3: writing a 3D line whose start point and end point coincide returns
\* the error code and writes no byte to the output stream.
C3_CoincidentLineRefused ==
  [][(kind = "3DLINE" /\ wret = << >> /\ wret' # << >>
        /\ rec.x0 = rec.x1 /\ rec.y0 = rec.y1 /\ rec.z0 = rec.z1)
     => (wret' = <<EXIT_FAILURE>> /\ out' = out)]_vars

\* C3's case: a 3D line with coincident points, moved away from the
\* origin by the setters, has been handed to write and was refused.
C3_Witness ==
  /\ kind = "3DLINE" /\ wret = <<EXIT_FAILURE>> /\ out = << >>
  /\ rec.x0 = rec.x1 /\ rec.y0 = rec.y1 /\ rec.z0 = rec.z1
  /\ rec.x0 # 0

\* C4: an arc whose radius is zero is refused by write: the error code is
\* returned and nothing is written.
C4_ZeroRadiusArcRefused ==
  [][(kind = "ARC" /\ wret = << >> /\ wret' # << >> /\ rec.radius = 0)
     => (wret' = <<EXIT_FAILURE>> /\ out' = out)]_vars

\* C5: an arc whose start angle or end angle lies outside [0, 360], or
\* whose angles are equal, is refused by write: the error code is returned
\* and nothing is written.
C5_ArcAnglesRefused ==
  [][(kind = "ARC" /\ wret = << >> /\ wret' # << >>
        /\ (\/ rec.start_angle = rec.end_angle
            \/ rec.start_angle < 0 \/ rec.start_angle > D(360)
            \/ rec.end_angle < 0 \/ rec.end_angle > D(360)))
     => (wret' = <<EXIT_FAILURE>> /\ out' = out)]_vars

\* C5's case: an arc with a valid radius and distinct angles, one of them
\* out of range, has been handed to write and was refused.
C5_Witness ==
  /\ kind = "ARC" /\ wret = <<EXIT_FAILURE>> /\ out = << >>
  /\ rec.radius > 0
  /\ rec.start_angle # rec.end_angle
  /\ rec.end_angle > D(360)

RECURSIVE OutputPairs(_, _)
\* The (group code, value) pairs of the lines write has put on the stream
\* f, from position p on: a group-code line, then a value line.
OutputPairs(f, p) ==
  IF p > Len(f) THEN << >>
  ELSE LET c == EndOfLine(f, p)
           x == EndOfLine(f, c + 1)
       IN  << <<DecValue(f, SkipSpace(f, p), c), SubSeq(f, c + 1, x - 1)>> >>
             \o OutputPairs(f, x + 1)

\* The group codes on the stream f.
OutputCodes(f) ==
  {OutputPairs(f, 1)[i][1] : i \in 1..Len(OutputPairs(f, 1))}

\* C11: for an entity type that has the members colour value, colour name
\* and transparency, a successful write at R12 puts none of the group
\* codes 420, 430 and 440 on the stream, and a successful write at R2004
\* or later puts all three of them there.
C11_TrueColourGated ==
  (wret = <<EXIT_SUCCESS>> /\ "color_value" \in DOMAIN rec) =>
    /\ ver = AutoCAD_12 => OutputCodes(out) \cap {420, 430, 440} = {}
    /\ ver >= AutoCAD_2004 => {420, 430, 440} \subseteq OutputCodes(out)

\* C12: a successful write at a revision before R13 puts none of the group
\* codes 48 (linetype scale), 60 (visibility) and 67 (paperspace) on the
\* stream, whatever the record holds.
C12_CommonFieldsGated ==
  (wret = <<EXIT_SUCCESS>> /\ ver < AutoCAD_13) =>
    OutputCodes(out) \cap {48, 60, 67} = {}

\* C15: what a successful write puts on the stream starts with the code-0
\* pair of the entity name, and the code-5 pair of the record's handle
\* comes next, for every record and revision.
C15_NameAndHandleFirst ==
  wret = <<EXIT_SUCCESS>> =>
    LET p == OutputPairs(out, 1)
    IN  /\ Len(p) >= 2
        /\ p[1][1] = 0
        /\ p[2] = <<5, FmtX32(rec.id_code)>>

\* C24: a write at revision R12 or later that succeeds leaves out the codes
\* 210, 220 and 230 exactly when the extrusion vector of the record is the
\* default (0, 0, 1), and emits all three otherwise.
C24_ExtrusionOmittedOnlyAtDefault ==
  (wret = <<EXIT_SUCCESS>> /\ "extr_x0" \in DOMAIN rec /\ ver >= AutoCAD_12)
    => IF <<rec.extr_x0, rec.extr_y0, rec.extr_z0>> = <<0, 0, D(1)>>
         THEN OutputCodes(out) \cap {210, 220, 230} = {}
         ELSE {210, 220, 230} \subseteq OutputCodes(out)

\* C26: a call of write, whether it succeeds or refuses, leaves every
\* member of the record as it was before the call.
C26_WriteLeavesRecord ==
  [][Len(wret') = Len(wret) + 1 => rec' = rec]_vars

Line3dFields ==
  { <<5, "id_code", "x">>, <<6, "linetype", "s">>, <<8, "layer", "s">>,
    <<10, "x0", "lf">>, <<20, "y0", "lf">>, <<30, "z0", "lf">>,
    <<11, "x1", "lf">>, <<21, "y1", "lf">>, <<31, "z1", "lf">>,
    <<38, "elevation", "lf">>, <<39, "thickness", "lf">>,
    <<48, "linetype_scale", "lf">>, <<60, "visibility", "hd">>,
    <<62, "color", "d">>, <<67, "paperspace", "d">>,
    <<92, "graphics_data_size", "d">>, <<160, "graphics_data_size", "d">>,
    <<210, "extr_x0", "lf">>, <<220, "extr_y0", "lf">>,
    <<230, "extr_z0", "lf">>, <<284, "shadow_mode", "hd">>,
    <<330, "dictionary_owner_soft", "s">>, <<347, "material", "s">>,
    <<360, "dictionary_owner_hard", "s">>, <<370, "lineweight", "hd">>,
    <<390, "plot_style_name", "s">>, <<420, "color_value", "d">>,
    <<430, "color_name", "s">>, <<440, "transparency", "d">> }

ArcFields(v) ==
  { <<5, "id_code", "x">>, <<6, "linetype", "s">>, <<8, "layer", "s">>,
    <<10, "x0", "lf">>, <<20, "y0", "lf">>, <<30, "z0", "lf">>,
    <<39, "thickness", "lf">>, <<40, "radius", "lf">>,
    <<48, "linetype_scale", "lf">>, <<50, "start_angle", "lf">>,
    <<51, "end_angle", "lf">>, <<60, "visibility", "hd">>,
    <<62, "color", "d">>, <<67, "paperspace", "d">>,
    <<210, "extr_x0", "lf">>, <<220, "extr_y0", "lf">>,
    <<230, "extr_z0", "lf">>,
    <<330, "dictionary_owner_soft", "s">>,
    <<360, "dictionary_owner_hard", "s">> }
  \cup (IF v <= AutoCAD_11 THEN { <<38, "elevation", "lf">> } ELSE {})

\* The branch for code 38 of dxf_solid_read asks for a revision up to R11.
SolidFields(v) ==
  { <<5, "id_code", "x">>, <<6, "linetype", "s">>, <<8, "layer", "s">>,
    <<10, "x0", "lf">>, <<20, "y0", "lf">>, <<30, "z0", "lf">>,
    <<11, "x1", "lf">>, <<21, "y1", "lf">>, <<31, "z1", "lf">>,
    <<12, "x2", "lf">>, <<22, "y2", "lf">>, <<32, "z2", "lf">>,
    <<13, "x3", "lf">>, <<23, "y3", "lf">>, <<33, "z3", "lf">>,
    <<39, "thickness", "lf">>, <<48, "linetype_scale", "lf">>,
    <<60, "visibility", "hd">>, <<62, "color", "d">>,
    <<67, "paperspace", "d">>,
    <<210, "extr_x0", "lf">>, <<220, "extr_y0", "lf">>,
    <<230, "extr_z0", "lf">>,
    <<330, "dictionary_owner_soft", "s">>,
    <<360, "dictionary_owner_hard", "s">> }
  \cup (IF v <= AutoCAD_11 THEN { <<38, "elevation", "lf">> } ELSE {})

EndblkFields ==
  { <<5, "id_code", "x">>, <<8, "layer", "s">>,
    <<330, "dictionary_owner_soft", "s">> }

ReadFields(k, v) ==
  CASE k = "3DLINE" -> Line3dFields
    [] k = "ARC" -> ArcFields(v)
    [] k = "ENDBLK" -> EndblkFields
    [] k = "SOLID" -> SolidFields(v)

\* What the branch of the member e asks of the record besides the token:
\* dxf_solid_read takes the branch for code 38 only when the elevation
\* member is not 0.0 already.
BranchTaken(k, r, e) ==
  (k = "SOLID" /\ e[1] = 38) => r.elevation # 0

\* Does read have a branch for the subclass marker (code 100), and which
\* markers does the branch take without a warning?
HasMarkerBranch(k, v) ==
  \/ k = "3DLINE"
  \/ k = "ARC" /\ v >= AutoCAD_13
  \/ k = "SOLID" /\ v >= AutoCAD_12

\* dxf_solid_read compares the marker it has read with nothing.
ChecksMarker(k) == k \in {"3DLINE", "ARC"}

GoodMarkers(k) ==
  CASE k = "3DLINE" -> {S_AcDbEntity, S_AcDbLine}
    [] k = "ARC" -> {S_AcDbEntity, S_AcDbCircle}
    [] OTHER -> {}

\* temp_string of dxf_3dline_read, dxf_arc_read and dxf_solid_read is a
\* NULL pointer; dxf_endblk_read has an array.
TempIsNull(k) == k \in {"3DLINE", "ARC", "SOLID"}

\* The bytes of the buffer a string member points to after init.
Capacity(k, m) == Len(InitRec(k)[m]) + 1

\* The conversion of a format.
Conv(c, f, p) ==
  CASE c = "x" -> ScanX(f, p)
    [] c = "s" -> ScanS(f, p)
    [] c = "d" -> ScanD(f, p)
    [] c = "hd" -> ScanHD(f, p)
    [] c = "lf" -> ScanLF(f, p)

\* fscanf (fp->fp, "<conversion>\n", ...): when the conversion matches,
\* the white space that follows is read too.
Fscanf(c, f, p) ==
  LET r == Conv(c, f, p)
  IN  IF r.ok THEN [r EXCEPT !.pos = SkipSpace(f, r.pos)] ELSE r

\* The post-loop defaults of read.
ReadDefaults(k, r) ==
  LET r1 == IF k # "ENDBLK" /\ r.linetype = S_empty
              THEN [r EXCEPT !.linetype = DXF_DEFAULT_LINETYPE] ELSE r
  IN  IF r1.layer = S_empty
        THEN [r1 EXCEPT !.layer = DXF_DEFAULT_LAYER] ELSE r1

\* A count of passes or warnings, one more.
Bump(n) == IF n < MaxIter THEN n + 1 ELSE n

\* A comment branch that keeps the comment in the layer member.
CommentBranch_Stored(here, f, p) ==
  LET s == Fscanf("s", f, p)
  IN  [here EXCEPT !.pos = s.pos,
                   !.temp_string = IF s.ok THEN s.val ELSE @,
                   !.dec.layer = IF s.ok THEN s.val ELSE @]

\* The branch for code 999, entered in the situation here with the stream
\* f at p: the comment is read into temp_string and printed to stdout.
CommentBranch(here, f, p) ==
  LET s == Fscanf("s", f, p)
  IN  [here EXCEPT !.pos = s.pos,
                   !.temp_string = IF s.ok THEN s.val ELSE @]

\* What one pass of the loop body can leave, with the token t in
\* temp_string, the stream f at p, the record r and g warnings so far.
\* Storing a string longer than the member's buffer is undefined: the
\* run either stops there or goes on with the string stored.
BodyOutcomes(k, v, f, p, t, r, g) ==
  LET here == [dec |-> r, pos |-> p, temp_string |-> t, diag |-> g,
               pc |-> "loop"]
      hit == {e \in ReadFields(k, v) : FmtU(e[1]) = t /\ BranchTaken(k, r, e)}
  IN  IF hit # {}
        THEN LET e == CHOOSE x \in hit : TRUE
                 s == Fscanf(e[3], f, p)
                 stored == [here EXCEPT !.dec = [r EXCEPT ![e[2]] = s.val],
                                        !.pos = s.pos]
             IN  IF ~s.ok THEN {[here EXCEPT !.pos = s.pos]}
                 ELSE IF e[3] = "s" /\ Len(s.val) + 1 > Capacity(k, e[2])
                   THEN {stored, [here EXCEPT !.pc = "crashed"]}
                 ELSE {stored}
      ELSE IF t = FmtU(100) /\ HasMarkerBranch(k, v)
        THEN LET s == Fscanf("s", f, p)
                 t1 == IF s.ok THEN s.val ELSE t
             IN  {[here EXCEPT !.pos = s.pos, !.temp_string = t1,
                               !.diag = IF ChecksMarker(k)
                                               /\ t1 \notin GoodMarkers(k)
                                          THEN Bump(g) ELSE g]}
      ELSE IF t = FmtU(310) /\ k = "3DLINE"
        THEN IF r.binary_graphics_data = << >>
               THEN {[here EXCEPT !.pc = "crashed"]}
               ELSE LET s == Fscanf("s", f, p)
                    IN  {[here EXCEPT
                            !.pos = s.pos,
                            !.dec = [r EXCEPT !.binary_graphics_data =
                                       Tail(r.binary_graphics_data)]]}
      ELSE IF t = FmtU(999) THEN {CommentBranch(here, f, p)}
      ELSE {[here EXCEPT !.diag = Bump(g)]}

S_1a == <<"1", "a">>

S_x == <<"x">>

S_hi == <<"h", "i">>

\* The (group code, value) pairs the input streams are made of; 1001 is
\* a group code no read function has a branch for.
ReadVocabulary(k) ==
  CASE k = "3DLINE" ->
         { <<5, S_1a>>, <<8, S_A>>, <<6, S_DASHED>>, <<60, FmtD(5)>>,
           <<60, FmtD(1)>>, <<10, FmtF(D(1) + 1000000)>>,
           <<38, FmtF(D(1))>>,
           <<100, S_AcDbEntity>>, <<310, S_1a>>, <<999, S_hi>>,
           <<999, S_0>>, <<1001, S_x>> }
    [] k = "ARC" ->
         { <<5, S_1a>>, <<8, S_A>>, <<40, FmtF(D(2))>>, <<60, FmtD(5)>>,
           <<38, FmtF(D(1))>>, <<100, S_AcDbCircle>>, <<100, S_AcDbArc>>,
           <<999, S_hi>>, <<230, FmtF(D(2))>>, <<1001, S_x>> }
    [] k = "ENDBLK" ->
         { <<5, S_1a>>, <<8, S_A>>, <<330, S_1f>>, <<999, S_hi>>,
           <<999, S_0>>, <<1001, S_x>> }
    [] k = "SOLID" ->
         { <<5, S_1a>>, <<8, S_A>>, <<13, FmtF(D(2))>>, <<60, FmtD(5)>>,
           <<38, FmtF(D(1))>>, <<100, S_AcDbTrace>>, <<999, S_hi>>,
           <<999, S_0>>, <<1001, S_x>> }

\* The bodies of at most n pairs.
RECURSIVE Bodies(_, _)
Bodies(k, n) ==
  IF n = 0 THEN { << >> }
  ELSE LET shorter == Bodies(k, n - 1)
       IN  shorter \cup
             { Append(b, q) : b \in {x \in shorter : Len(x) = n - 1},
                              q \in ReadVocabulary(k) }

\* The text of a body, as write lays pairs out, and of the terminator:
\* the code-0 pair that opens what follows the entity.
RECURSIVE BodyText(_, _)
BodyText(b, i) ==
  IF i > Len(b) THEN << >>
  ELSE Pair(GroupCode(b[i][1]), b[i][2]) \o BodyText(b, i + 1)

Terminator == Pair(GroupCode(0), S_ENDSEC)

\* The call dxf_<entity>_read (fp, record) on the stream f of revision v
\* standing at p: up to the first evaluation of the loop condition.
\* Reading the first token through the NULL temp_string is undefined: the
\* run stops there or goes on as if temp_string pointed to a buffer.
EnterRead(v, f, p) ==
  /\ pc = "idle"
  /\ ver' = v
  /\ infile' = f
  /\ dec' = InitRec(kind)
  /\ diag' = 0
  /\ iter' = 0
  /\ ferr' = FALSE
  /\ LET s == ScanLine(f, p)
     IN  \/ /\ pc' = "loop"
            /\ temp_string' = s.val
            /\ pos' = s.pos
         \/ /\ TempIsNull(kind)
            /\ pc' = "crashed"
            /\ temp_string' = << >>
            /\ pos' = p

\* read is called on a stream of some revision that holds a body and the
\* terminator.
BeginRead ==
  /\ pc = "idle"
  /\ \E v \in Versions, b \in Bodies(kind, MaxPairs) :
       EnterRead(v, BodyText(b, 1) \o Terminator,
                 SkipSpace(BodyText(b, 1) \o Terminator, 1))

\* One evaluation of the loop condition and what follows it: the return
\* when the token is "0", the return on a stream error, else the body.
ReadStep ==
  /\ pc = "loop"
  /\ IF temp_string = S_0
       THEN /\ dec' = ReadDefaults(kind, dec)
            /\ pc' = "done"
            /\ UNCHANGED <<pos, temp_string, diag, iter>>
     ELSE IF ferr
       THEN /\ pc' = "failed"
            /\ UNCHANGED <<pos, temp_string, dec, diag, iter>>
     ELSE \E o \in BodyOutcomes(kind, ver, infile, pos, temp_string,
                                dec, diag) :
            /\ dec' = o.dec
            /\ pos' = o.pos
            /\ temp_string' = o.temp_string
            /\ diag' = o.diag
            /\ pc' = o.pc
            /\ iter' = Bump(iter)
  /\ UNCHANGED <<infile, ferr>>

\* The device fails: the error indicator of the stream is set.
IOError ==
  /\ pc = "loop"
  /\ ~ferr
  /\ ferr' = TRUE
  /\ UNCHANGED <<infile, pos, temp_string, dec, diag, pc, iter>>

InitDecode ==
  /\ kind \in CodecKinds
  /\ ver = AutoCAD_2000
  /\ ChainIdle /\ WriteIdle /\ ReadIdle /\ PointIdle /\ AuxIdle

NextDecode ==
  \/ BeginRead /\ UNCHANGED <<kind, chainVars, writeVars, pointVars, auxVars>>
  \/ ReadStep /\ UNCHANGED <<kind, ver, chainVars, writeVars, pointVars, auxVars>>
  \/ IOError /\ UNCHANGED <<kind, ver, chainVars, writeVars, pointVars, auxVars>>

SpecDecode == InitDecode /\ [][NextDecode]_vars

(***************************************************************************)
(* What the claims about decoding speak of.                                *)
(***************************************************************************)
RECURSIVE StreamPairs(_, _)
\* The (group code, value) pairs of the stream f from p up to the code-0
\* terminator.
StreamPairs(f, p) ==
  LET c == ScanS(f, p)
      x == ScanS(f, c.pos)
  IN  IF ~c.ok \/ c.val = S_0 \/ ~x.ok THEN << >>
      ELSE << <<DecValue(c.val, 1, Len(c.val) + 1), x.val>> >>
             \o StreamPairs(f, x.pos)

\* read has a branch for the group code c.
Known(k, v, c) ==
  \/ \E e \in ReadFields(k, v) : e[1] = c
  \/ c = 100 /\ HasMarkerBranch(k, v)
  \/ c = 310 /\ k = "3DLINE"
  \/ c = 999

\* The group code c is the code of a member of the record.
IsFieldCode(k, v, c) == \E e \in ReadFields(k, v) : e[1] = c

RECURSIVE DecodeRun(_, _, _, _, _, _, _)
\* read run from the loop condition for at most fuel passes.
DecodeRun(k, v, f, p, t, r, fuel) ==
  IF t = S_0 THEN [done |-> TRUE, dec |-> ReadDefaults(k, r)]
  ELSE LET os == {o \in BodyOutcomes(k, v, f, p, t, r, 0) : o.pc = "loop"}
       IN  IF fuel = 0 \/ os = {} THEN [done |-> FALSE, dec |-> r]
           ELSE LET o == CHOOSE x \in os : TRUE
                IN  DecodeRun(k, v, f, o.pos, o.temp_string, o.dec, fuel - 1)

\* read run on the stream that holds the body b and the terminator.
DecodeOf(k, v, b) ==
  LET f == BodyText(b, 1) \o Terminator
      s == ScanLine(f, SkipSpace(f, 1))
  IN  DecodeRun(k, v, f, s.pos, s.val, InitRec(k), MaxIter + 1)

\* C6: decode reads a new group code after it has handled a pair: at each
\* evaluation of the loop condition the token under test is the group code
\* of the first pair not handled yet, or the terminator's "0" when every
\* pair has been handled, so decode returns after one pass per pair.
C6_DecodeReachesTerminator ==
  LET b == StreamPairs(infile, 1)
  IN  /\ pc = "loop" =>
           /\ iter <= Len(b)
           /\ temp_string = IF iter < Len(b) THEN FmtU(b[iter + 1][1])
                            ELSE S_0
      /\ pc = "done" => iter = Len(b)

\* C8: decoding a stream that holds no pair before the terminator returns,
\* and the record it returns equals the initialised record.
C8_EmptyBodyYieldsDefaults ==
  (pc \in {"done", "failed", "crashed"} /\ StreamPairs(infile, 1) = << >>)
    => (pc = "done" /\ dec = InitRec(kind))

\* C9: decoding a stream in which one pair has a group code read has no
\* branch for, all other pairs being members of the record, writes at most
\* one warning, and returns with exactly one warning and with the record
\* that decoding the stream without that pair returns.
C9_UnknownCodeOneDiagnostic ==
  LET b == StreamPairs(infile, 1)
      IsKnownPair(q) == Known(kind, ver, q[1])
      unknown == {i \in 1..Len(b) : ~Known(kind, ver, b[i][1])}
      fields == {i \in 1..Len(b) : IsFieldCode(kind, ver, b[i][1])}
      ref == DecodeOf(kind, ver, SelectSeq(b, IsKnownPair))
  IN  (pc \in {"loop", "done"} /\ Cardinality(unknown) = 1
         /\ Cardinality(fields) = Len(b) - 1)
        => /\ diag <= 1
           /\ pc = "done" => (diag = 1 /\ ref.done /\ dec = ref.dec)

\* C10: whatever code-60 value decode meets, the visibility member of the
\* record it fills is 0 or 1.
C10_VisibilityStaysValid ==
  (kind \in {"3DLINE", "ARC"} /\ pc # "idle") => dec.visibility \in {0, 1}

\* An initialised record changed as little as write asks for to accept it.
Writable(k) ==
  CASE k = "3DLINE" -> [dxf_3dline_init EXCEPT !.x1 = D(1)]
    [] k = "ARC" -> [dxf_arc_init EXCEPT !.radius = D(1), !.end_angle = D(90)]
    [] OTHER -> InitRec(k)

\* write at revision v puts the elevation of a record on the stream when
\* the elevation is not zero.
EmitsElevation(k, v) ==
  38 \in OutputCodes(dxf_write(k, v, [Writable(k) EXCEPT
                                        !.elevation = D(1)]).out)

\* C13: read and write gate the elevation (code 38) alike: when the first
\* pair of the stream has code 38 and a value other than zero, the pass
\* that handles it stores the value in the record at exactly the revisions
\* at which write puts a non-zero elevation on the stream.
C13_ElevationGateAgrees ==
  LET b == StreamPairs(infile, 1)
  IN  (pc = "loop" /\ iter = 1 /\ "elevation" \in DOMAIN dec
         /\ Len(b) >= 1 /\ b[1][1] = 38)
        => (dec.elevation # 0 <=> EmitsElevation(kind, ver))

\* C14: the record of an entity type with an extrusion vector, after init
\* and while and after read fills it from a stream that holds none of the
\* codes 210, 220 and 230, has the extrusion vector (0, 0, 1).
C14_ExtrusionDefault ==
  LET b == StreamPairs(infile, 1)
  IN  (pc # "idle" /\ "extr_z0" \in DOMAIN dec
         /\ \A i \in 1..Len(b) : b[i][1] \notin {210, 220, 230})
        => <<dec.extr_x0, dec.extr_y0, dec.extr_z0>> = <<0, 0, D(1)>>

\* C17: while and after read fills a 3D line from a stream whose pairs all
\* have the code 310, the run has not stopped, and for every occurrence j
\* handled so far the j-th node of the chain reached from the record's
\* binary_graphics_data member holds the value of the j-th occurrence.
C17_RepeatedCodesFillChain ==
  LET b == StreamPairs(infile, 1)
      n == IF iter < Len(b) THEN iter ELSE Len(b)
  IN  (kind = "3DLINE" /\ pc # "idle" /\ iter >= 1 /\ Len(b) >= 1
         /\ \A i \in 1..Len(b) : b[i][1] = 310)
        => /\ pc # "crashed"
           /\ \A j \in 1..n :
                /\ Len(dec.binary_graphics_data) >= j
                /\ dec.binary_graphics_data[j] = b[j][2]

\* The subclass markers write emits for a record of kind k at revision v.
EmittedMarkers(k, v) ==
  LET p == OutputPairs(dxf_write(k, v, Writable(k)).out, 1)
  IN  {p[i][2] : i \in {j \in 1..Len(p) : p[j][1] = 100}}

\* C23: when the first pair of the stream is a subclass marker (code 100),
\* the pass that handles it writes no warning if write emits that marker
\* for the entity at the revision, and one warning otherwise; the loop goes
\* on in both cases.
C23_MarkersAgree ==
  LET b == StreamPairs(infile, 1)
  IN  (pc = "loop" /\ iter = 1 /\ Len(b) >= 1 /\ b[1][1] = 100)
        => diag = IF b[1][2] \in EmittedMarkers(kind, ver) THEN 0 ELSE 1

\* C19: when the error indicator of the stream is set while read is in
\* its loop, the next thing read does is to return the error value.
C19_StreamErrorStopsDecode ==
  [][(pc = "loop" /\ ferr) => pc' = "failed"]_vars

\* C20: the pass that handles a comment (code 999) leaves every member of
\* the record as it was.
C20_CommentLeavesRecord ==
  [][(pc = "loop" /\ temp_string = FmtU(999)) => dec' = dec]_vars

\* C20's case: the first pair of the stream is a comment and the pass
\* that handles it has been made: the comment is in temp_string.
C20_Witness ==
  /\ pc = "loop" /\ iter = 1
  /\ StreamPairs(infile, 1)[1] = <<999, S_hi>>
  /\ temp_string = S_hi
  /\ dec = InitRec(kind)


(***************************************************************************)
(* Round trip: the record is written, and what write has put on the stream *)
(* is read back, the next entity's code-0 pair behind it.                  *)
(***************************************************************************)
\* The caller reads the code-0 pair that write has put first ("  0" and
\* the entity name) and calls read on the rest.
ReadBack ==
  /\ pc = "idle"
  /\ wret = <<EXIT_SUCCESS>>
  /\ LET f == out \o Terminator
     IN  EnterRead(ver, f, Fscanf("s", f, Fscanf("s", f, 1).pos).pos)

InitRoundTrip == InitEncode

NextRoundTrip ==
  \/ \E c \in SetterInputs(kind) :
       SetField(c[1], c[2]) /\ UNCHANGED <<kind, ver, chainVars, readVars, pointVars, auxVars>>
  \/ Write /\ UNCHANGED <<kind, ver, chainVars, readVars, pointVars, auxVars>>
  \/ ReadBack /\ UNCHANGED <<kind, chainVars, writeVars, pointVars, auxVars>>
  \/ ReadStep /\ UNCHANGED <<kind, ver, chainVars, writeVars, pointVars, auxVars>>

SpecRoundTrip == InitRoundTrip /\ [][NextRoundTrip]_vars

\* The revisions at which write puts the member m on the stream.
WrittenAt(k, m, v) ==
  CASE m \in {"dictionary_owner_soft", "dictionary_owner_hard"} ->
         k # "ENDBLK" /\ v >= AutoCAD_14
    [] m \in {"id_code", "layer"} -> k = "ENDBLK" => v >= AutoCAD_13
    [] m = "elevation" -> v <= AutoCAD_11 /\ DXF_FLATLAND # 0
    [] m \in {"extr_x0", "extr_y0", "extr_z0"} -> v >= AutoCAD_12
    [] m \in {"paperspace", "linetype_scale", "visibility"} ->
         k = "3DLINE" => v >= AutoCAD_13
    [] m = "material" -> k = "3DLINE" /\ v >= AutoCAD_2008
    [] m = "lineweight" -> k = "3DLINE" /\ v >= AutoCAD_2002
    [] m \in {"graphics_data_size", "binary_graphics_data"} ->
         k = "3DLINE" /\ v >= AutoCAD_2000
    [] m \in {"color_value", "color_name", "transparency"} ->
         k = "3DLINE" /\ v >= AutoCAD_2004
    [] m \in {"plot_style_name", "shadow_mode"} ->
         k = "3DLINE" /\ v >= AutoCAD_2009
    [] OTHER -> TRUE

\* C7: decoding at a revision what write has produced at that revision
\* fills the record member by member: while decode runs each member holds
\* its default or the value of the record written, and the record decode
\* returns has the written record's value in every member the revision
\* supports and the default in every other member.
C7_RoundTrip ==
  (wret = <<EXIT_SUCCESS>> /\ pc \in {"loop", "done"}) =>
    \A m \in DOMAIN rec :
      /\ dec[m] \in {InitRec(kind)[m], rec[m]}
      /\ pc = "done" =>
           dec[m] = IF WrittenAt(kind, m, ver) THEN rec[m]
                    ELSE InitRec(kind)[m]

(***************************************************************************)
(* A line made from two points.  Here the string members are followed as   *)
(* pointers: a record has the values of its members (val) and, for every   *)
(* string member, the block the member points to (ptr).  The blocks of the *)
(* heap are <<owner, part>> with the owners "p0", "p1" and "line".         *)
(***************************************************************************)
PointNames == {"p0", "p1"}

\* The string members dxf_3dline_create_from_points looks at.
StringMembers ==
  {"linetype", "layer", "dictionary_owner_soft", "dictionary_owner_hard"}

\* The NULL pointer among the blocks.
NoBlock == <<"none", "none">>

NoLine == [state |-> "none"]

\* No helper has been called yet.
NoCall == [fn |-> "none", ret |-> [state |-> "none"]]

\* The points a caller can hand over: a point (x, y, 0) whose linetype and
\* layer are NULL or strings of its own.
PointValues(o) ==
  { [val |-> [x0 |-> x, y0 |-> y, z0 |-> 0,
              linetype |-> IF lt = NoBlock THEN S_empty ELSE S_DASHED,
              layer |-> IF ly = NoBlock THEN S_empty ELSE S_A,
              thickness |-> IF o = "p0" THEN D(1) ELSE D(2),
              linetype_scale |-> D(2),
              visibility |-> IF o = "p0" THEN 0 ELSE 1,
              color |-> IF o = "p0" THEN 1 ELSE 2,
              paperspace |-> DXF_PAPERSPACE,
              dictionary_owner_soft |-> S_1f,
              dictionary_owner_hard |-> S_2f],
     ptr |-> [linetype |-> lt, layer |-> ly,
              dictionary_owner_soft |-> <<o, "dictionary_owner_soft">>,
              dictionary_owner_hard |-> <<o, "dictionary_owner_hard">>]] :
      x \in {0, D(1)},
      y \in IF o = "p1" THEN {0, D(1)} ELSE {0},
      lt \in {NoBlock, <<o, "linetype">>},
      ly \in {NoBlock, <<o, "layer">>} }

\* The blocks a record's string members point to.
Targets(ptr) == {ptr[m] : m \in StringMembers} \ {NoBlock}

\* The values of the inheritance argument and of the id_code argument.
InheritValues == {-1, 0, 1, 2, 3}

IdValues == {26, -1}

\* The members of the line the switch on inheritance assigns from point q.
Inherit(line, q) ==
  [state |-> "made",
   val |-> [line.val EXCEPT
              !.linetype = IF q.ptr.linetype # NoBlock
                             THEN q.val.linetype ELSE @,
              !.layer = IF q.ptr.layer # NoBlock THEN q.val.layer ELSE @,
              !.thickness = q.val.thickness,
              !.linetype_scale = q.val.linetype_scale,
              !.visibility = q.val.visibility,
              !.color = q.val.color,
              !.paperspace = q.val.paperspace,
              !.dictionary_owner_soft =
                 IF q.ptr.dictionary_owner_soft # NoBlock
                   THEN q.val.dictionary_owner_soft ELSE @,
              !.dictionary_owner_hard =
                 IF q.ptr.dictionary_owner_hard # NoBlock
                   THEN q.val.dictionary_owner_hard ELSE @],
   ptr |-> [linetype |-> IF q.ptr.linetype # NoBlock
                           THEN q.ptr.linetype ELSE line.ptr.linetype,
            layer |-> IF q.ptr.layer # NoBlock
                        THEN q.ptr.layer ELSE line.ptr.layer,
            dictionary_owner_soft |->
              IF q.ptr.dictionary_owner_soft # NoBlock
                THEN <<"line", "strdup_soft">>
                ELSE line.ptr.dictionary_owner_soft,
            dictionary_owner_hard |->
              IF q.ptr.dictionary_owner_hard # NoBlock
                THEN <<"line", "strdup_hard">>
                ELSE line.ptr.dictionary_owner_hard]]

\* dxf_3dline_create_from_points (p0, p1, id_code, inheritance): the line
\* it returns, or that it returns NULL.
dxf_3dline_create_from_points(p0, p1, id_code, inheritance) ==
  IF p0.val.x0 = p1.val.x0 /\ p0.val.y0 = p1.val.y0 /\ p0.val.z0 = p1.val.z0
    THEN [state |-> "refused"]
  ELSE IF inheritance < 0 \/ inheritance > 2
    THEN [state |-> "refused"]
  ELSE
    LET line ==
          [state |-> "made",
           val |-> [dxf_3dline_init EXCEPT
                      !.id_code = id_code,
                      !.x0 = p0.val.x0, !.y0 = p0.val.y0, !.z0 = p0.val.z0,
                      !.x1 = p1.val.x0, !.y1 = p1.val.y0, !.z1 = p1.val.z0],
           ptr |-> [m \in StringMembers |-> <<"line", m>>]]
    IN  CASE inheritance = 0 -> line
          [] inheritance = 1 -> Inherit(line, p0)
          [] inheritance = 2 -> Inherit(line, p1)

\* dxf_point_init (NULL): the new point get_mid_point fills.
dxf_point_init ==
  [state |-> "made",
   val |-> [id_code |-> 0, x0 |-> 0, y0 |-> 0, z0 |-> 0,
            linetype |-> DXF_DEFAULT_LINETYPE, layer |-> DXF_DEFAULT_LAYER,
            thickness |-> 0, linetype_scale |-> DXF_DEFAULT_LINETYPE_SCALE,
            visibility |-> DXF_DEFAULT_VISIBILITY,
            color |-> DXF_COLOR_BYLAYER, paperspace |-> DXF_MODELSPACE,
            dictionary_owner_soft |-> S_empty,
            dictionary_owner_hard |-> S_empty],
   ptr |-> [m \in StringMembers |-> <<"mid", m>>]]

\* The test of the two helpers of a line: p0 and p1 have identical
\* coordinates.
SameEndpoints(r) == r.x0 = r.x1 /\ r.y0 = r.y1 /\ r.z0 = r.z1

\* case 1 of the switch of dxf_3dline_get_mid_point: every string member
\* of the line that is not NULL is copied with strdup.
InheritFromLine(point, line) ==
  [state |-> "made",
   val |-> [point.val EXCEPT
              !.linetype = IF line.ptr.linetype # NoBlock
                             THEN line.val.linetype ELSE @,
              !.layer = IF line.ptr.layer # NoBlock
                          THEN line.val.layer ELSE @,
              !.thickness = line.val.thickness,
              !.linetype_scale = line.val.linetype_scale,
              !.visibility = line.val.visibility,
              !.color = line.val.color,
              !.paperspace = line.val.paperspace,
              !.dictionary_owner_soft =
                 IF line.ptr.dictionary_owner_soft # NoBlock
                   THEN line.val.dictionary_owner_soft ELSE @,
              !.dictionary_owner_hard =
                 IF line.ptr.dictionary_owner_hard # NoBlock
                   THEN line.val.dictionary_owner_hard ELSE @],
   ptr |-> [m \in StringMembers |->
              IF line.ptr[m] # NoBlock THEN <<"mid", "strdup_" \o m>>
                                       ELSE point.ptr[m]]]

\* dxf_3dline_get_mid_point without the test of the end points.
dxf_3dline_get_mid_point_NoCheck(line, id_code, inheritance) ==
  LET point ==
        [dxf_point_init EXCEPT
           !.val.id_code = id_code,
           !.val.x0 = (line.val.x0 + line.val.x1) \div 2,
           !.val.y0 = (line.val.y0 + line.val.y1) \div 2,
           !.val.z0 = (line.val.z0 + line.val.z1) \div 2]
  IN  IF inheritance = 1 THEN InheritFromLine(point, line) ELSE point

\* dxf_3dline_get_mid_point (line, id_code, inheritance): the point it
\* returns, or that it returns NULL.  An inheritance other than 0 and 1 is
\* warned about and gives the point as initialised.
dxf_3dline_get_mid_point(line, id_code, inheritance) ==
  IF SameEndpoints(line.val)
    THEN [state |-> "refused"]
    ELSE dxf_3dline_get_mid_point_NoCheck(line, id_code, inheritance)

\* The largest k in lo..hi with k * k <= m, by bisection.
RECURSIVE RootIn(_, _, _)
RootIn(m, lo, hi) ==
  IF lo = hi THEN lo
  ELSE LET mid == (lo + hi + 1) \div 2
       IN  IF mid * mid <= m THEN RootIn(m, mid, hi)
                             ELSE RootIn(m, lo, mid - 1)

\* sqrt () of a whole number of square units, to three decimals.
Root(n) == RootIn(n * 1000000, 0, 4000) * (HalfMicro \div 1000)

\* dxf_3dline_get_length (line).  The coordinates of the lines here are
\* whole numbers.
dxf_3dline_get_length(line) ==
  IF SameEndpoints(line.val)
    THEN 0
    ELSE LET dx == (line.val.x1 - line.val.x0) \div HalfMicro
             dy == (line.val.y1 - line.val.y0) \div HalfMicro
             dz == (line.val.z1 - line.val.z0) \div HalfMicro
         IN  Root(dx * dx + dy * dy + dz * dz)

\* dxf_3dline_init (NULL): a new line, whose end points are both the origin.
InitLine ==
  /\ ln = NoLine
  /\ ln' = [state |-> "made", val |-> dxf_3dline_init,
            ptr |-> [m \in StringMembers |-> <<"line", m>>]]
  /\ live' = live \cup Blocks("line", AllocParts("3DLINE"))
  /\ res' = [fn |-> "init", ret |-> [state |-> "made"]]
  /\ UNCHANGED pt

\* The call of dxf_3dline_get_mid_point on the line; the point it returns
\* is a new record with the strings dxf_point_init and strdup allocate.
GetMidPoint(id_code, inheritance) ==
  /\ ln.state = "made"
  /\ <<"line", "struct">> \in live
  /\ <<"mid", "struct">> \notin live
  /\ LET point == dxf_3dline_get_mid_point(ln, id_code, inheritance)
     IN  /\ res' = [fn |-> "get_mid_point", ret |-> point]
         /\ live' = IF point.state = "made"
                      THEN live \cup {<<"mid", "struct">>}
                                \cup Blocks("mid", StringMembers)
                                \cup Targets(point.ptr)
                      ELSE live
  /\ UNCHANGED <<pt, ln>>

\* The call of dxf_3dline_get_length on the line.
GetLength ==
  /\ ln.state = "made"
  /\ <<"line", "struct">> \in live
  /\ res' = [fn |-> "get_length",
             ret |-> [state |-> "length", length |-> dxf_3dline_get_length(ln)]]
  /\ UNCHANGED <<pt, ln, live>>

\* The call of dxf_3dline_create_from_points on the two points, both
\* allocated.  The line's blocks are those dxf_3dline_init allocates and
\* the strdup copies its string members point to.
CreateFromPoints(id_code, inheritance) ==
  /\ ln = NoLine
  /\ \A o \in PointNames : <<o, "struct">> \in live
  /\ ln' = dxf_3dline_create_from_points(pt["p0"], pt["p1"], id_code,
                                         inheritance)
  /\ res' = [fn |-> "create_from_points", ret |-> [state |-> ln'.state]]
  /\ live' = IF ln'.state = "made"
               THEN live \cup Blocks("line", AllocParts("3DLINE"))
                         \cup {b \in Targets(ln'.ptr) : b[1] = "line"}
               ELSE live
  /\ UNCHANGED pt

\* dxf_point_free (pt[o]): the point's strings and its struct are released.
FreePoint(o) ==
  /\ <<o, "struct">> \in live
  /\ live' = live \ (Targets(pt[o].ptr) \cup {<<o, "struct">>})
  /\ UNCHANGED <<pt, ln, res>>

\* dxf_3dline_free (line).
FreeLine ==
  /\ ln.state = "made"
  /\ <<"line", "struct">> \in live
  /\ live' = live \ Blocks("line", FreeParts("3DLINE"))
  /\ UNCHANGED <<pt, ln, res>>

InitPoints ==
  /\ kind = "3DLINE"
  /\ ver = AutoCAD_2000
  /\ next = [n \in Nodes |-> NULL]
  /\ op = NoOp
  /\ WriteIdle /\ ReadIdle /\ AuxIdle
  /\ \E a \in PointValues("p0"), b \in PointValues("p1") :
       /\ pt = [o \in PointNames |-> IF o = "p0" THEN a ELSE b]
       /\ live = {<<"p0", "struct">>, <<"p1", "struct">>}
                   \cup Targets(a.ptr) \cup Targets(b.ptr)
  /\ ln = NoLine
  /\ res = NoCall

NextPoints ==
  \/ \E id_code \in IdValues, inheritance \in InheritValues :
       CreateFromPoints(id_code, inheritance)
         /\ UNCHANGED <<kind, ver, next, op, writeVars, readVars, auxVars>>
  \/ \E o \in PointNames :
       FreePoint(o) /\ UNCHANGED <<kind, ver, next, op, writeVars, readVars, auxVars>>
  \/ FreeLine /\ UNCHANGED <<kind, ver, next, op, writeVars, readVars, auxVars>>
  \/ InitLine /\ UNCHANGED <<kind, ver, next, op, writeVars, readVars, auxVars>>
  \/ \E id_code \in IdValues, inheritance \in InheritValues :
       GetMidPoint(id_code, inheritance)
         /\ UNCHANGED <<kind, ver, next, op, writeVars, readVars, auxVars>>
  \/ GetLength /\ UNCHANGED <<kind, ver, next, op, writeVars, readVars, auxVars>>

SpecPoints == InitPoints /\ [][NextPoints]_vars

\* The string blocks of the allocated records.
LiveTargets(o) ==
  IF o = "line"
    THEN IF ln.state = "made" /\ <<"line", "struct">> \in live
           THEN Targets(ln.ptr) ELSE {}
    ELSE IF <<o, "struct">> \in live THEN Targets(pt[o].ptr) ELSE {}

\* C18: no two allocated records have a string member pointing to the same
\* block, and every string member of the line made from the points points
\* to an allocated block, also after the points have been freed.
C18_NoSharedStorage ==
  /\ \A a, b \in PointNames \cup {"line"} :
       a # b => LiveTargets(a) \cap LiveTargets(b) = {}
  /\ LiveTargets("line") \subseteq live

\* C21: a helper of a two-point line called on coinciding points returns its
\* failure result (NULL for get_mid_point and create_from_points, 0.0 for
\* get_length) and allocates nothing.
C21_CoincidentRefused ==
  [][/\ (res' # res /\ res'.fn = "get_mid_point"
           /\ ln.val.x0 = ln.val.x1 /\ ln.val.y0 = ln.val.y1
           /\ ln.val.z0 = ln.val.z1)
          => (res'.ret.state = "refused" /\ live' = live)
     /\ (res' # res /\ res'.fn = "get_length"
           /\ ln.val.x0 = ln.val.x1 /\ ln.val.y0 = ln.val.y1
           /\ ln.val.z0 = ln.val.z1)
          => (res'.ret.length = 0 /\ live' = live)
     /\ (res' # res /\ res'.fn = "create_from_points"
           /\ pt["p0"].val.x0 = pt["p1"].val.x0
           /\ pt["p0"].val.y0 = pt["p1"].val.y0
           /\ pt["p0"].val.z0 = pt["p1"].val.z0)
          => (res'.ret.state = "refused" /\ ln'.state = "refused"
                /\ live' = live)]_vars

\* A line whose end points coincide has been asked for its mid point, and
\* no point was made.
C21_Witness ==
  /\ res.fn = "get_mid_point"
  /\ res.ret.state = "refused"
  /\ ln.state = "made"
  /\ ln.val.x0 = ln.val.x1 /\ ln.val.y0 = ln.val.y1 /\ ln.val.z0 = ln.val.z1
  /\ <<"mid", "struct">> \notin live

(***************************************************************************)
(* The 3DSOLID entity.  Its proprietary data are two chains of lines, each *)
(* line with the order number it has in the stream; a chain is the         *)
(* sequence of its nodes and the NULL pointer is the empty sequence.       *)
(***************************************************************************)
\* The lines of a chain a caller builds.
MaxLines == 3

S_3DSOLID == <<"3", "D", "S", "O", "L", "I", "D">>

S_AcDbModelerGeometry ==
  <<"A", "c", "D", "b", "M", "o", "d", "e", "l", "e", "r",
    "G", "e", "o", "m", "e", "t", "r", "y">>

S_AcDb3dSolid == <<"A", "c", "D", "b", "3", "d", "S", "o", "l", "i", "d">>

\* The passes of the write loop that are counted.
MaxPasses == 2 * MaxLines + 1

\* dxf_proprietary_data_init (NULL): one node with order 0, an empty line
\* and no next node.
dxf_proprietary_data_init == <<[order |-> 0, line |-> S_empty]>>

\* The Dxf3dsolid struct as memset leaves it.
dxf_3dsolid_new ==
  [id_code |-> 0, linetype |-> S_empty, layer |-> S_empty,
   elevation |-> 0, thickness |-> 0, linetype_scale |-> 0,
   visibility |-> 0, color |-> 0, paperspace |-> 0,
   graphics_data_size |-> 0, shadow_mode |-> 0,
   binary_graphics_data |-> << >>,
   dictionary_owner_soft |-> S_empty, material |-> S_empty,
   dictionary_owner_hard |-> S_empty, lineweight |-> 0,
   plot_style_name |-> S_empty, color_value |-> 0,
   color_name |-> S_empty, transparency |-> 0,
   proprietary_data |-> << >>, additional_proprietary_data |-> << >>,
   modeler_format_version_number |-> 0, history |-> S_empty]

\* The setter calls of dxf_3dsolid_init, in order.
Init3dsolidCalls ==
  <<  <<"id_code", 0>>, <<"linetype", DXF_DEFAULT_LINETYPE>>,
      <<"layer", DXF_DEFAULT_LAYER>>,
      <<"elevation", 0>>, <<"thickness", 0>>,
      <<"linetype_scale", DXF_DEFAULT_LINETYPE_SCALE>>,
      <<"visibility", DXF_DEFAULT_VISIBILITY>>,
      <<"color", DXF_COLOR_BYLAYER>>, <<"paperspace", DXF_MODELSPACE>>,
      <<"graphics_data_size", 0>>, <<"shadow_mode", 0>>,
      <<"binary_graphics_data", dxf_binary_graphics_data_init>>,
      <<"dictionary_owner_soft", S_empty>>, <<"material", S_empty>>,
      <<"dictionary_owner_hard", S_empty>>, <<"lineweight", 0>>,
      <<"plot_style_name", S_empty>>, <<"color_value", 0>>,
      <<"color_name", S_empty>>, <<"transparency", 0>>,
      <<"proprietary_data", dxf_proprietary_data_init>>,
      <<"additional_proprietary_data", dxf_proprietary_data_init>>,
      <<"modeler_format_version_number", 1>>,
      <<"history", S_empty>>  >>

dxf_3dsolid_init ==
  ApplyCalls("3DSOLID", dxf_3dsolid_new, Init3dsolidCalls, 1)

\* dxf_3dsolid_set_proprietary_data and
\* dxf_3dsolid_set_additional_proprietary_data (r, chain): the record after
\* the call.  A NULL chain is refused.
dxf_3dsolid_set_chain(r, member, chain) ==
  IF chain = << >> THEN r ELSE [r EXCEPT ![member] = chain]

\* The chain with the lines whose order numbers are in S, in order.
RECURSIVE ChainOf(_)
ChainOf(S) ==
  IF S = {} THEN << >>
  ELSE LET o == CHOOSE x \in S : \A y \in S : x <= y
       IN  <<[order |-> o, line |-> FmtU(o)]>> \o ChainOf(S \ {o})

\* The chains a caller hands to the two setters, and NULL.
CallerChains == {ChainOf(S) : S \in SUBSET (1..MaxLines)}

\* What dxf_3dsolid_write writes before its loop over the proprietary data
\* (in a build without BUILD_64).
Write3dsolidHead(v, r) ==
  LET k == "3DSOLID"
  IN  Pair(GroupCode(0), S_3DSOLID)
      \o Opt(GetInt(k, r, "id_code") # -1,
             Pair(GroupCode(5), FmtX32(GetInt(k, r, "id_code"))))
      \o WriteOwnerGroups(v, r.dictionary_owner_soft, r.dictionary_owner_hard)
      \o Opt(v >= AutoCAD_13, Pair(GroupCode(100), S_AcDbEntity))
      \o Opt(GetInt(k, r, "paperspace") = DXF_PAPERSPACE,
             Pair(GroupCode(67), FmtD(DXF_PAPERSPACE)))
      \o Pair(GroupCode(8), r.layer)
      \o Opt(r.linetype # DXF_DEFAULT_LINETYPE, Pair(GroupCode(6), r.linetype))
      \o Opt(v >= AutoCAD_2008 /\ r.material # S_empty,
             Pair(GroupCode(347), r.material))
      \o Opt(GetInt(k, r, "color") # DXF_COLOR_BYLAYER,
             Pair(GroupCode(62), FmtD(GetInt(k, r, "color"))))
      \o Opt(v >= AutoCAD_2002,
             Pair(GroupCode(370), FmtD(GetInt(k, r, "lineweight"))))
      \o Opt(v <= AutoCAD_11 /\ DXF_FLATLAND # 0
               /\ GetDouble(k, r, "elevation") # 0,
             Pair(GroupCode(38), FmtF(GetDouble(k, r, "elevation"))))
      \o Opt(GetDouble(k, r, "thickness") # 0,
             Pair(GroupCode(39), FmtF(GetDouble(k, r, "thickness"))))
      \o Opt(GetDouble(k, r, "linetype_scale") # D(1),
             Pair(GroupCode(48), FmtF(GetDouble(k, r, "linetype_scale"))))
      \o Opt(GetInt(k, r, "visibility") # 0,
             Pair(GroupCode(60), FmtD(GetInt(k, r, "visibility"))))
      \o Opt(v >= AutoCAD_2000,
             Pair(GroupCode(92), FmtD(GetInt(k, r, "graphics_data_size")))
               \o WriteDataLines(r.binary_graphics_data, 1))
      \o Opt(v >= AutoCAD_2004,
             Pair(GroupCode(420), FmtD(GetInt(k, r, "color_value")))
               \o Pair(GroupCode(430), r.color_name)
               \o Pair(GroupCode(440), FmtD(GetInt(k, r, "transparency"))))
      \o Opt(v >= AutoCAD_2009,
             Pair(GroupCode(390), r.plot_style_name)
               \o Pair(GroupCode(284), FmtD(GetInt(k, r, "shadow_mode"))))
      \o Opt(v >= AutoCAD_13,
             Pair(GroupCode(100), S_AcDbModelerGeometry))
      \o Opt(v >= AutoCAD_2008, Pair(GroupCode(100), S_AcDb3dSolid))
      \o Opt(v >= AutoCAD_13,
             Pair(GroupCode(70),
                  FmtD(GetInt(k, r, "modeler_format_version_number"))))

\* What dxf_3dsolid_write writes after the loop.
Write3dsolidTail(v, r) ==
  Opt(v >= AutoCAD_2008, Pair(GroupCode(350), r.history))

\* The test of the while loop: one of the two iterators is not NULL.
LoopGoesOn(w, r) ==
  \/ w.iter <= Len(r.proprietary_data)
  \/ w.additional_iter <= Len(r.additional_proprietary_data)

\* One if statement of the loop body on the chain c with its iterator at
\* position it: the outcomes [it, i, out, crashed].  Reading the order
\* member through a NULL iterator is undefined: the run stops there or the
\* value read is not i.
WriteIfOrder(c, it, i, code) ==
  IF it > Len(c)
    THEN {[it |-> it, i |-> i, out |-> << >>, crashed |-> TRUE],
          [it |-> it, i |-> i, out |-> << >>, crashed |-> FALSE]}
  ELSE IF c[it].order = i
    THEN {[it |-> it + 1, i |-> i + 1,
           out |-> Pair(GroupCode(code), c[it].line), crashed |-> FALSE]}
  ELSE {[it |-> it, i |-> i, out |-> << >>, crashed |-> FALSE]}

\* One pass of the loop body: the locals it leaves and what it has written.
PassOutcomes(w, r) ==
  LET first == WriteIfOrder(r.proprietary_data, w.iter, w.i, 1)
      passes == IF w.passes < MaxPasses THEN w.passes + 1 ELSE w.passes
  IN  UNION
        { IF a.crashed
            THEN {[pc |-> "crashed", iter |-> a.it,
                   additional_iter |-> w.additional_iter, i |-> a.i,
                   passes |-> passes, out |-> a.out]}
            ELSE { [pc |-> IF b.crashed THEN "crashed" ELSE "loop",
                    iter |-> a.it, additional_iter |-> b.it, i |-> b.i,
                    passes |-> passes, out |-> a.out \o b.out] :
                   b \in WriteIfOrder(r.additional_proprietary_data,
                                      w.additional_iter, a.i, 3) } :
          a \in first }

Write3dsolidIdle ==
  [pc |-> "idle", iter |-> 1, additional_iter |-> 1, i |-> 1, passes |-> 0]

\* dxf_3dsolid_set_proprietary_data (solid, chain), before the write.
SetProprietaryData(chain) ==
  /\ wl.pc = "idle"
  /\ solid' = dxf_3dsolid_set_chain(solid, "proprietary_data", chain)
  /\ UNCHANGED <<wl, out, wret>>

\* dxf_3dsolid_set_additional_proprietary_data (solid, chain), before the
\* write.
SetAdditionalProprietaryData(chain) ==
  /\ wl.pc = "idle"
  /\ solid' = dxf_3dsolid_set_chain(solid, "additional_proprietary_data",
                                    chain)
  /\ UNCHANGED <<wl, out, wret>>

\* The end of dxf_3dsolid_write, when the test of the loop fails.
Finish3dsolid(w, o) ==
  /\ wl' = [w EXCEPT !.pc = "done"]
  /\ out' = o \o Write3dsolidTail(ver, solid')
  /\ wret' = <<EXIT_SUCCESS>>

\* dxf_3dsolid_write (fp, solid) up to the first test of the loop.  An empty
\* linetype or layer of the record is replaced by the default.
BeginWrite3dsolid ==
  /\ wl.pc = "idle"
  /\ LET r1 == IF solid.linetype = S_empty
                 THEN SetMember("3DSOLID", solid, "linetype",
                                DXF_DEFAULT_LINETYPE)
                 ELSE solid
         r == IF r1.layer = S_empty
                THEN SetMember("3DSOLID", r1, "layer", DXF_DEFAULT_LAYER)
                ELSE r1
         w == [Write3dsolidIdle EXCEPT !.pc = "loop"]
     IN  /\ solid' = r
         /\ IF LoopGoesOn(w, r)
              THEN /\ wl' = w
                   /\ out' = out \o Write3dsolidHead(ver, r)
                   /\ wret' = wret
              ELSE Finish3dsolid(w, out \o Write3dsolidHead(ver, r))

\* One pass of the loop of dxf_3dsolid_write, with the test that follows.
WritePass ==
  /\ wl.pc = "loop"
  /\ solid' = solid
  /\ \E n \in PassOutcomes(wl, solid) :
       LET w == [pc |-> n.pc, iter |-> n.iter,
                 additional_iter |-> n.additional_iter, i |-> n.i,
                 passes |-> n.passes]
       IN  IF n.pc = "loop" /\ ~LoopGoesOn(w, solid)
             THEN Finish3dsolid(w, out \o n.out)
             ELSE /\ wl' = w
                  /\ out' = out \o n.out
                  /\ wret' = wret

InitSolid3d ==
  /\ kind = "3DSOLID"
  /\ ver \in Versions
  /\ ChainIdle /\ ReadIdle /\ PointIdle /\ AccessIdle /\ TableIdle
  /\ DonutIdle
  /\ rec = << >> /\ nsets = 0 /\ out = << >> /\ wret = << >>
  /\ solid = dxf_3dsolid_init
  /\ wl = Write3dsolidIdle

NextSolid3d ==
  \/ \E chain \in CallerChains :
       SetProprietaryData(chain)
         /\ UNCHANGED <<kind, ver, chainVars, rec, nsets, readVars, pointVars,
                         accessVars, tableVars, donutVars>>
  \/ \E chain \in CallerChains :
       SetAdditionalProprietaryData(chain)
         /\ UNCHANGED <<kind, ver, chainVars, rec, nsets, readVars, pointVars,
                         accessVars, tableVars, donutVars>>
  \/ BeginWrite3dsolid
       /\ UNCHANGED <<kind, ver, chainVars, rec, nsets, readVars, pointVars,
                       accessVars, tableVars, donutVars>>
  \/ WritePass
       /\ UNCHANGED <<kind, ver, chainVars, rec, nsets, readVars, pointVars,
                       accessVars, tableVars, donutVars>>

SpecSolid3d == InitSolid3d /\ [][NextSolid3d]_vars

\* The lines the record stores in its two chains.
StoredLines(r) ==
  Len(r.proprietary_data) + Len(r.additional_proprietary_data)

\* C25: the loop of dxf_3dsolid_write over the proprietary data makes at
\* most one pass per stored line and does not stop in a fault: every write
\* gets through it.
C25_WriteLoopTerminates ==
  wl.pc # "idle" => (wl.pc # "crashed" /\ wl.passes <= StoredLines(solid))

(***************************************************************************)
(* Accessors.  The getters and setters of the numeric members of a 3DLINE  *)
(* and of an ARC, called one at a time on a record; acc holds the last     *)
(* call and what it returned.                                              *)
(***************************************************************************)
AccessKinds == {"3DLINE", "ARC"}

\* The members of type double among those the accessors are called on.
DoubleMembers(k) ==
  {"thickness", "linetype_scale"} \cup (IF k = "ARC" THEN {"radius"} ELSE {})

\* The members of type int and int16_t among them.
IntMembers == {"id_code", "visibility", "paperspace", "shadow_mode"}

AccessMembers(k) == IntMembers \cup DoubleMembers(k)

\* The values a caller passes and a stream stores.
AccessValues(k, f) ==
  IF f \in DoubleMembers(k) THEN {-D(1), 0, D(1), D(2)} ELSE {-1, 0, 1, 2, 4}

\* The test of dxf_<entity>_get_<member> that makes it return EXIT_FAILURE.
GetterFails(k, r, f) ==
  CASE f = "id_code" -> r.id_code < 0
    [] f = "visibility" -> r.visibility < 0 \/ r.visibility > 1
    [] f = "shadow_mode" -> r.shadow_mode < 0 \/ r.shadow_mode > 3
    [] f = "thickness" -> r.thickness < 0
    [] f = "linetype_scale" -> r.linetype_scale < 0
    [] f = "radius" -> r.radius < 0 \/ r.radius = 0
    [] OTHER -> FALSE

\* dxf_<entity>_get_<member> (r) in the type of the member.
Getter(k, r, f) ==
  IF f \in DoubleMembers(k) THEN GetDouble(k, r, f) ELSE GetInt(k, r, f)

\* return (EXIT_FAILURE) in a getter of the member's type.
FailureValue(k, f) ==
  IF f \in DoubleMembers(k) THEN D(EXIT_FAILURE) ELSE EXIT_FAILURE

NoAccess ==
  [fn |-> "none", member |-> "none", arg |-> 0, ret |-> 0, failed |-> FALSE]

\* A call dxf_<entity>_set_<f> (rec, v); failed says that NULL came back.
AccessSet(f, v) ==
  /\ nsets < MaxSets
  /\ rec' = SetMember(kind, rec, f, v)
  /\ nsets' = nsets + 1
  /\ acc' = [fn |-> "set", member |-> f, arg |-> v, ret |-> 0,
             failed |-> ~SetterAccepts(kind, f, v)]
  /\ UNCHANGED <<out, wret>>

\* The member is assigned without its setter, as dxf_<entity>_read assigns
\* what fscanf has parsed.
AccessStore(f, v) ==
  /\ nsets < MaxSets
  /\ rec' = [rec EXCEPT ![f] = v]
  /\ nsets' = nsets + 1
  /\ acc' = [fn |-> "store", member |-> f, arg |-> v, ret |-> 0,
             failed |-> FALSE]
  /\ UNCHANGED <<out, wret>>

\* A call dxf_<entity>_get_<f> (rec), or dxf_<entity>_get_<f> (NULL);
\* failed says that the getter has taken one of its error returns.
AccessGet(f, null) ==
  /\ acc' = [fn |-> "get", member |-> f, arg |-> 0,
             ret |-> IF null THEN FailureValue(kind, f)
                     ELSE Getter(kind, rec, f),
             failed |-> null \/ GetterFails(kind, rec, f)]
  /\ UNCHANGED writeVars

InitAccess ==
  /\ kind \in AccessKinds
  /\ ver = AutoCAD_2000
  /\ ChainIdle /\ ReadIdle /\ PointIdle /\ Solid3dIdle /\ TableIdle
  /\ DonutIdle
  /\ rec = InitRec(kind)
  /\ nsets = 0
  /\ out = << >>
  /\ wret = << >>
  /\ acc = NoAccess

NextAccess ==
  \/ \E f \in AccessMembers(kind) : \E v \in AccessValues(kind, f) :
       AccessSet(f, v)
         /\ UNCHANGED <<kind, ver, chainVars, readVars, pointVars, solid3dVars,
                         tableVars, donutVars>>
  \/ \E f \in AccessMembers(kind) : \E v \in AccessValues(kind, f) :
       AccessStore(f, v)
         /\ UNCHANGED <<kind, ver, chainVars, readVars, pointVars, solid3dVars,
                         tableVars, donutVars>>
  \/ \E f \in AccessMembers(kind) : \E null \in BOOLEAN :
       AccessGet(f, null)
         /\ UNCHANGED <<kind, ver, chainVars, readVars, pointVars, solid3dVars,
                         tableVars, donutVars>>

SpecAccess == InitAccess /\ [][NextAccess]_vars

\* The values the getter of member f returns on success, over the values
\* the member can hold.
SuccessValues(k, r, f) ==
  { Getter(k, [r EXCEPT ![f] = v], f) :
      v \in {u \in AccessValues(k, f) : ~GetterFails(k, [r EXCEPT ![f] = u], f)} }

\* C27: what a getter returns to signal a failure, on a NULL record or on an
\* invalid stored value, is none of the values it returns on success.
C27_FailureDistinct ==
  (acc.fn = "get" /\ acc.failed)
    => acc.ret \notin SuccessValues(kind, rec, acc.member)

\* The values each member may be set to.
C30_InRange(f, v) ==
  CASE f \in {"id_code", "thickness"} -> v >= 0
    [] f \in {"visibility", "paperspace"} -> v \in {0, 1}
    [] f = "shadow_mode" -> v \in 0..3
    [] f = "radius" -> v > 0
    [] OTHER -> TRUE

\* C30: a setter called with a value outside the range of its member
\* returns NULL and leaves every member of the record as it was.
C30_RefusedSetterLeavesRecord ==
  [][(acc' # acc /\ acc'.fn = "set" /\ ~C30_InRange(acc'.member, acc'.arg))
       => (acc'.failed /\ rec' = rec)]_vars

\* A setter has refused a value the record does not hold.
C30_Witness ==
  /\ acc.fn = "set"
  /\ ~C30_InRange(acc.member, acc.arg)
  /\ acc.failed
  /\ rec[acc.member] # acc.arg
  /\ nsets = MaxSets

(***************************************************************************)
(* The TABLES section.  dxf_table_write_tables writes the section header,  *)
(* loops over the tables and writes the ENDTAB terminator.                 *)
(***************************************************************************)
MaxTables == 3

MaxTablePasses == 5

INT_MAX == 2147483647

INT_MIN == -2147483647 - 1

S_SECTION == <<"S", "E", "C", "T", "I", "O", "N">>
S_TABLES == <<"T", "A", "B", "L", "E", "S">>
S_ENDTAB == <<"E", "N", "D", "T", "A", "B">>

\* The lists a caller hands over: up to MaxTables tables.
TableLists == UNION {[1..n -> 1..MaxTables] : n \in 0..MaxTables}

\* dxf_section_write (fp, section_name).
dxf_section_write(section_name) ==
  Pair(GroupCode(0), S_SECTION) \o Pair(GroupCode(2), section_name)

\* dxf_table_write_endtable (fp).
dxf_table_write_endtable == Pair(GroupCode(0), S_ENDTAB)

\* dxf_table_init (table): a NULL table is allocated; table_name gets a
\* strdup ("") in every call.  names counts these copies.
dxf_table_init(w) == [w EXCEPT !.table = 1, !.names = @ + 1]

\* dxf_tables_list_iter++ on an int: past INT_MAX the behaviour is
\* undefined, the value wraps or the run stops.
IncrementIter(w) ==
  IF w.dxf_tables_list_iter = INT_MAX
    THEN {[w EXCEPT !.dxf_tables_list_iter = INT_MIN],
          [w EXCEPT !.pc = "crashed"]}
    ELSE {[w EXCEPT !.dxf_tables_list_iter = @ + 1]}

\* The test of the while loop of dxf_table_write_tables.
TableLoopGoesOn(w) ==
  w.dxf_tables_list_iter # w.dxf_tables_list_last_iter

WriteTablesIdle ==
  [pc |-> "idle", dxf_tables_list_iter |-> 0,
   dxf_tables_list_last_iter |-> 0, table |-> NULL, names |-> 0,
   passes |-> 0]

\* What follows the loop: the terminator and return (EXIT_SUCCESS).
FinishTables(w, o) ==
  /\ tw' = [w EXCEPT !.pc = "done"]
  /\ out' = o \o dxf_table_write_endtable
  /\ wret' = Append(wret, EXIT_SUCCESS)

\* dxf_table_write_tables (fp, tables) up to the first test of the loop.
BeginWriteTables ==
  /\ tw.pc = "idle"
  /\ tables' = tables
  /\ LET w == [WriteTablesIdle EXCEPT !.pc = "loop",
                                      !.dxf_tables_list_iter = 1]
         o == out \o dxf_section_write(S_TABLES)
     IN  IF TableLoopGoesOn(w)
           THEN tw' = w /\ out' = o /\ wret' = wret
           ELSE FinishTables(w, o)

\* One pass of the loop (dxf_table_init, dxf_table_write, which writes
\* nothing, and the increment), with the test that follows.
TablePass ==
  /\ tw.pc = "loop"
  /\ tw.passes < MaxTablePasses
  /\ tables' = tables
  /\ \E w \in IncrementIter(dxf_table_init([tw EXCEPT !.passes = @ + 1])) :
       IF w.pc = "loop" /\ ~TableLoopGoesOn(w)
         THEN FinishTables(w, out)
         ELSE tw' = w /\ out' = out /\ wret' = wret

InitTables ==
  /\ kind = "TABLE"
  /\ ver \in {AutoCAD_12, AutoCAD_2000}
  /\ ChainIdle /\ ReadIdle /\ PointIdle /\ Solid3dIdle /\ AccessIdle
  /\ DonutIdle
  /\ rec = << >> /\ nsets = 0 /\ out = << >> /\ wret = << >>
  /\ tables \in TableLists
  /\ tw = WriteTablesIdle

NextTables ==
  \/ BeginWriteTables
       /\ UNCHANGED <<kind, ver, chainVars, rec, nsets, readVars, pointVars,
                       solid3dVars, accessVars, donutVars>>
  \/ TablePass
       /\ UNCHANGED <<kind, ver, chainVars, rec, nsets, readVars, pointVars,
                       solid3dVars, accessVars, donutVars>>

SpecTables == InitTables /\ [][NextTables]_vars

\* C28: the loop of dxf_table_write_tables makes at most one pass per table
\* of the list it is given, then the terminator is written and EXIT_SUCCESS
\* returned.
C28_OncePerTable ==
  /\ tw.pc # "idle" => (tw.pc # "crashed" /\ tw.passes <= Len(tables))
  /\ tw.pc = "done" => wret = <<EXIT_SUCCESS>>

(***************************************************************************)
(* The donut.  dxf_donut_write_lowlevel draws a donut as a polyline of two *)
(* bulged vertices; dn.calls holds the calls it makes to the polyline and  *)
(* vertex writers, with the arguments it computes.                         *)
(***************************************************************************)
\* The arguments a caller passes.
DonutArgs ==
  [id_code : {0, 26}, linetype : {S_BYLAYER}, layer : {S_empty, S_A},
   x0 : {0, D(1)}, y0 : {0}, z0 : {0}, thickness : {0},
   outside_diameter : {0, D(1), D(2), D(4)},
   inside_diameter : {0, D(1), D(2), D(4)},
   color : {DXF_COLOR_BYLAYER}, paperspace : {DXF_MODELSPACE}]

\* The test that makes dxf_donut_write_lowlevel return EXIT_FAILURE.
DonutRefused(a) == a.outside_diameter > a.inside_diameter

\* A call dxf_polyline_write_lowlevel (fp->fp, ...) with the arguments that
\* are not literals.
PolylineCall(id_code, a, layer, width) ==
  [fn |-> "dxf_polyline_write_lowlevel", id_code |-> id_code,
   linetype |-> a.linetype, layer |-> layer,
   x0 |-> a.x0, y0 |-> a.y0, z0 |-> a.z0, thickness |-> a.thickness,
   start_width |-> width, end_width |-> width,
   color |-> a.color, paperspace |-> a.paperspace]

\* A call dxf_vertex_write_lowlevel (fp->fp, ...) at the abscissa x.
VertexCall(id_code, a, layer, x, width) ==
  [fn |-> "dxf_vertex_write_lowlevel", id_code |-> id_code,
   linetype |-> a.linetype, layer |-> layer,
   x0 |-> x, y0 |-> a.y0, z0 |-> a.z0, thickness |-> a.thickness,
   start_width |-> width, end_width |-> width,
   color |-> a.color, paperspace |-> a.paperspace]

\* dxf_donut_write_lowlevel (fp, a...): what it returns and the calls it
\* makes.
dxf_donut_write_lowlevel(a) ==
  IF DonutRefused(a) THEN [ret |-> EXIT_FAILURE, calls |-> << >>]
  ELSE
    LET start_width == (a.outside_diameter - a.inside_diameter) \div 2
        layer == IF a.layer = S_empty THEN DXF_DEFAULT_LAYER ELSE a.layer
        quarter == (a.outside_diameter + a.inside_diameter) \div 4
    IN  [ret |-> EXIT_SUCCESS,
         calls |->
           << PolylineCall(a.id_code, a, layer, start_width \div 2),
              VertexCall(a.id_code + 1, a, layer, a.x0 - quarter,
                         start_width \div 2),
              VertexCall(a.id_code + 2, a, layer, a.x0 + quarter,
                         start_width \div 2) >>]

\* A call dxf_donut_write_lowlevel (fp, dn.args...).
DonutWriteLowlevel ==
  /\ dn.ret = << >>
  /\ LET w == dxf_donut_write_lowlevel(dn.args)
     IN  dn' = [dn EXCEPT !.calls = w.calls, !.ret = <<w.ret>>]

InitDonut ==
  /\ kind = "DONUT"
  /\ ver = AutoCAD_2000
  /\ ChainIdle /\ ReadIdle /\ PointIdle /\ WriteIdle
  /\ Solid3dIdle /\ AccessIdle /\ TableIdle
  /\ \E a \in DonutArgs : dn = [args |-> a, calls |-> << >>, ret |-> << >>]

NextDonut ==
  DonutWriteLowlevel
    /\ UNCHANGED <<kind, ver, chainVars, writeVars, readVars, pointVars,
                    solid3dVars, accessVars, tableVars>>

SpecDonut == InitDonut /\ [][NextDonut]_vars

\* C29: dxf_donut_write_lowlevel returns EXIT_FAILURE and writes nothing
\* exactly when the outside diameter is smaller than the inside diameter;
\* in every other case it writes the polyline and its two vertices.
C29_RefusedWhenOutsideSmaller ==
  dn.ret # << >>
    => IF dn.args.outside_diameter < dn.args.inside_diameter
         THEN dn.ret = <<EXIT_FAILURE>> /\ dn.calls = << >>
         ELSE /\ dn.ret = <<EXIT_SUCCESS>>
              /\ [i \in 1..Len(dn.calls) |-> dn.calls[i].fn]
                   = <<"dxf_polyline_write_lowlevel",
                       "dxf_vertex_write_lowlevel",
                       "dxf_vertex_write_lowlevel">>

=============================================================================
